---- MODULE Spec2Model ----
(***************************************************************************)
(* Word-hop puzzle toolchain of neumanns-workshop/synapse:                 *)
(*   - the two PathFinder implementations (linear-scan Dijkstra of         *)
(*     scripts/generate_daily_pairs.py and the heap-based Dijkstra of      *)
(*     scripts/heuristic_solver.py),                                       *)
(*   - the concurrent puzzle-pair generator (generate_daily_pairs.py),     *)
(*   - the heuristic multi-attempt solver (heuristic_solver.py),           *)
(*   - the interactive session with checkpoints and backtracking           *)
(*     (solve_puzzle of scripts/test_playtest_pairs_ab.py),                *)
(*   - the graph builder (scripts/build_graph.py).                         *)
(*                                                                         *)
(* Words are the integers 1..n; the order of the integers stands for the   *)
(* string order of the words and for the insertion order of the graph's    *)
(* dictionary.  A similarity is written as an integer number of           *)
(* hundredths; costs and distances are the doubles the interpreter         *)
(* computes from it, rounded as the interpreter rounds them.               *)
(***************************************************************************)
EXTENDS Integers, Sequences, FiniteSets, TLC

VARIABLES
    graph,          \* the SemanticGraph: word -> [edges: neighbor -> similarity, tsne: <<x, y>>]
    scan_order,     \* iteration order of set(graph.keys()) in this interpreter run
    pf,             \* one PathFinder query: [start, end, ran, linear, heap]
    \* generate_daily_pairs.py
    quota,              \* PAIRS_PER_PATH_LENGTH of this run
    used_start_words,   \* manager.dict(), shared: the words used as a start
    used_target_words,  \* manager.dict(), shared: the words used as a target
    needed_pairs,       \* manager.dict(), shared: remaining pairs per path length
    next_chunk,         \* index of the next element of chunk_args to be handed out
    chunk_results,      \* chunk index -> the list generate_chunk returned
    worker,             \* pool process -> the locals of its generate_chunk call
    main_pc,            \* "generating", then "combined"
    all_pairs,          \* the batch, filled when pool.map has returned
    recheck,            \* a later, independent recomputation of one pair's path
    \* heuristic_solver.py
    hs,                 \* one solve_puzzle call: arguments, locals, position, result
    \* test_playtest_pairs_ab.py
    gs,                 \* one interactive session: its GameState and the locals of solve_puzzle
    \* build_graph.py
    bg,                 \* one build_graph run: its inputs, its position and graph["nodes"]
    \* test_daily_pairs_llm.py
    pb                  \* one process_batch call: its arguments, its locals and its position

gen_vars == <<quota, used_start_words, used_target_words, needed_pairs, next_chunk,
              chunk_results, worker, main_pc, all_pairs, recheck>>

vars == <<graph, scan_order, pf, gen_vars, hs, gs, bg, pb>>

\* ---------------------------------------------------------------- bounds
NumNodes == 3       \* words of the enumerated graphs of the PathFinder specification
MaxEdges == 3       \* directed edges of an enumerated graph
NumProcesses == 2   \* min(cpu_count(), 4): processes of the pool
MaxQuota == 1       \* largest PAIRS_PER_PATH_LENGTH entry (the source sets 185 and 220)
MAX_ATTEMPTS_PER_PAIR == 2  \* the source sets 200
CHUNK_SIZE == 1     \* the source sets 10
MaxSteps == 10      \* largest max_steps of a solve_puzzle call (the default is 30)
MaxRetries == 2     \* largest max_retries of a solve_puzzle call (the default is 50)

\* ---------------------------------------------------------------- configuration
MIN_PATH_LENGTH == 4
MAX_PATH_LENGTH == 5
MIN_NODE_DEGREE == 3
MIN_TSNE_DISTANCE_SQUARED == 20 * 20
TARGET_PATH_LENGTHS == {4, 5}

\* ---------------------------------------------------------------- values
None == 0                   \* Python's None where a word is expected
Infinity == 1000000         \* float('infinity'): larger than every path cost

Nodes == 1..NumNodes
Words == 1..(NumNodes + 1)  \* one word more than the graph has
\* 0.7, 0.8 and 0.9: as doubles (1 - 0.9) + (1 - 0.8) < 1 - 0.7, and
\* (1 - 0.9) + (1 - 0.9) = 1 - 0.8
Sims == {70, 80, 90}

Range(s) == {s[i] : i \in 1..Len(s)}
Last(s) == s[Len(s)]

\* The rotations of a sequence, and of its reverse: the iteration orders of
\* a set that are tried.  Each element comes first in one of them and every
\* two elements come in both relative orders; with three elements these are
\* all six orders.
RECURSIVE Ascending(_)
Ascending(S) ==
    IF S = {} THEN <<>>
    ELSE LET m == CHOOSE x \in S : \A y \in S : x <= y
         IN  <<m>> \o Ascending(S \ {m})

Reverse(s) == [i \in 1..Len(s) |-> s[Len(s) + 1 - i]]

Rotate(s, k) == [i \in 1..Len(s) |-> s[((i + k - 1) % Len(s)) + 1]]

Perms(S) ==
    IF S = {} THEN {<<>>}
    ELSE LET a == Ascending(S) IN
         {Rotate(a, k) : k \in 0..(Len(a) - 1)}
            \cup {Rotate(Reverse(a), k) : k \in 0..(Len(a) - 1)}

\* ---------------------------------------------------------------- graphs
IsNode(g, w) == w \in DOMAIN g

Edges(g, w) == g[w].edges

\* ---------------------------------------------------------------- floats
\* The similarities of a graph are written in hundredths.  The interpreter
\* holds a similarity, a cost and a distance as a double, and the sums and
\* differences of doubles are rounded: (1 - 0.9) + (1 - 0.8) is less than
\* 1 - 0.7.  A double v is written <<h, e>> with
\*     100 * 2^60 * v = h * 2^60 + e :
\* h is v in hundredths and e is what v differs from h hundredths by, so that
\* two doubles compare as their pairs do, h first.  float('infinity') is
\* <<Infinity, 0>>.
RECURSIVE Pow2(_)
Pow2(n) == IF n = 0 THEN 1 ELSE 2 * Pow2(n - 1)

\* 2^n modulo 100
RECURSIVE Pow2Mod100(_)
Pow2Mod100(n) == IF n = 0 THEN 1 ELSE (2 * Pow2Mod100(n - 1)) % 100

\* the powers that the rounding of a double uses, computed once
FloatQuanta == [q \in 1..15 |-> Pow2(q)]

FloatResidues == [n \in 45..59 |-> Pow2Mod100(n)]

FloatZero == <<0, 0>>

FloatInfinity == <<Infinity, 0>>

\* a < b of two doubles
FloatLess(a, b) == a[1] < b[1] \/ (a[1] = b[1] /\ a[2] < b[2])

\* The doubles from 2^(q-8) up to 2^(q-7) are the multiples of 2^(q-60): q is
\* the number of binary digits of 2^60 * v that a double of the size of v
\* does not hold.
FloatDigitsDropped(a) ==
    CHOOSE q \in 1..14 :
        /\ ~FloatLess(<<256 * a[1], 256 * a[2]>>, <<100 * FloatQuanta[q], 0>>)
        /\ FloatLess(<<256 * a[1], 256 * a[2]>>, <<100 * FloatQuanta[q + 1], 0>>)

\* What h * 2^60 + e lies above the multiple of 100 * Q below it, Q a power
\* of two and residue = 2^60 / Q modulo 100.
FloatExcess(a, Q, residue) == (Q * ((a[1] * residue) % 100) + a[2]) % (100 * Q)

\* a moved to the nearest multiple of 100 * Q, to the even one of two that are
\* equally near; over and over_even are what a lies above a multiple of
\* 100 * Q and above a multiple of 200 * Q.
FloatNearest(a, Q, over, over_even) ==
    IF over < 50 * Q THEN <<a[1], a[2] - over>>
    ELSE IF over > 50 * Q THEN <<a[1], a[2] + 100 * Q - over>>
    ELSE IF over_even = 50 * Q THEN <<a[1], a[2] - 50 * Q>>
    ELSE <<a[1], a[2] + 50 * Q>>

FloatRoundTo(a, q) ==
    FloatNearest(a, FloatQuanta[q],
                 FloatExcess(a, FloatQuanta[q], FloatResidues[60 - q]),
                 FloatExcess(a, 2 * FloatQuanta[q], FloatResidues[59 - q]))

\* The double nearest to the exact result a of an operation, the even one of
\* two that are equally near.
FloatRound(a) == IF a = FloatZero THEN a ELSE FloatRoundTo(a, FloatDigitsDropped(a))

\* the double the graph holds for a similarity written in hundredths
FloatOf(similarity) == FloatRound(<<similarity, 0>>)

\* a + b of two doubles
FloatAdd(a, b) == FloatRound(<<a[1] + b[1], a[2] + b[2]>>)

\* the conversion forgotten: the similarity itself taken as the cost
CostIsSimilarity(similarity) == FloatOf(similarity)

\* 1 - similarity for every similarity from 0.00 to 1.00, computed once
FloatOneMinus(a) == FloatRound(<<100 - a[1], 0 - a[2]>>)

FloatCosts == [similarity \in 0..100 |-> FloatOneMinus(FloatOf(similarity))]

\* cost = 1 - similarity
Cost(similarity) == FloatCosts[similarity]

MkGraph(nodes, E, w, tsne) ==
    [u \in nodes |->
        [edges |-> [v \in {x \in nodes : <<u, x>> \in E} |-> w[<<u, v>>]],
         tsne  |-> tsne[u]]]

NodePairs == {<<u, v>> \in Nodes \X Nodes : u # v}

EdgeSets == {E \in SUBSET NodePairs : Cardinality(E) <= MaxEdges}

\* the iteration orders a set of the words of g can have
NodeOrders == Perms(Nodes)

Orders(g) == IF DOMAIN g = Nodes THEN NodeOrders ELSE Perms(DOMAIN g)

OriginTsne == [u \in Nodes |-> <<0, 0>>]

EnumGraphs ==
    UNION {{MkGraph(Nodes, E, w, OriginTsne) : w \in [E -> Sims]} : E \in EdgeSets}

\* ---------------------------------------------------------------- PathFinder, linear scan
\* for node in unvisited: if distances[node] < min_distance: ...
\* best = <<current, min_distance>>; the set is iterated in the order `order`.
RECURSIVE ScanMin(_, _, _, _, _)
ScanMin(order, i, unvisited, distances, best) ==
    IF i > Len(order) THEN best
    ELSE LET node == order[i] IN
         IF node \in unvisited /\ FloatLess(distances[node], best[2])
         THEN ScanMin(order, i + 1, unvisited, distances, <<node, distances[node]>>)
         ELSE ScanMin(order, i + 1, unvisited, distances, best)

\* One pass of "for neighbor, similarity in edges.items()" from `current`,
\* whose distance is `base`.  A dictionary holds each neighbor once, so the
\* updates of one pass are independent of each other.
Improves(g, current, base, visited, distances, n) ==
    /\ n \in DOMAIN Edges(g, current)
    /\ n \notin visited
    /\ FloatLess(FloatAdd(base, Cost(Edges(g, current)[n])), distances[n])

RelaxDistances(g, current, base, visited, distances) ==
    [n \in DOMAIN g |->
        IF Improves(g, current, base, visited, distances, n)
        THEN FloatAdd(base, Cost(Edges(g, current)[n]))
        ELSE distances[n]]

RelaxPrevious(g, current, base, visited, distances, previous) ==
    [n \in DOMAIN g |->
        IF Improves(g, current, base, visited, distances, n)
        THEN current
        ELSE previous[n]]

\* while unvisited: ... ; returns the final distances and previous_nodes
RECURSIVE LinearLoop(_, _, _, _, _, _, _)
LinearLoop(g, end_node, order, distances, previous_nodes, visited, unvisited) ==
    IF unvisited = {} THEN [distances |-> distances, previous |-> previous_nodes]
    ELSE LET current == ScanMin(order, 1, unvisited, distances, <<None, FloatInfinity>>)[1] IN
         IF current = None \/ distances[current] = FloatInfinity \/ current = end_node
         THEN [distances |-> distances, previous |-> previous_nodes]
         ELSE LET visited1 == visited \cup {current} IN
              LinearLoop(g, end_node, order,
                         RelaxDistances(g, current, distances[current], visited1, distances),
                         RelaxPrevious(g, current, distances[current], visited1, distances,
                                       previous_nodes),
                         visited1, unvisited \ {current})

\* the start inserted after the loop whenever the walk back has not put it first
RECURSIVE WalkBack(_, _, _)
WalkBack(previous_nodes, current, path) ==
    IF current = None THEN path
    ELSE WalkBack(previous_nodes, previous_nodes[current], <<current>> \o path)

LinearTraceBackThenStart(previous_nodes, start_node, current, path) ==
    LET walked == WalkBack(previous_nodes, previous_nodes[current], <<current>> \o path)
    IN  IF walked[1] = start_node /\ Len(walked) > 1 THEN walked
        ELSE <<start_node>> \o walked

\* while current is not None: path.insert(0, current); current = previous[current];
\*     if current == start: path.insert(0, start); break
RECURSIVE LinearTraceBack(_, _, _, _)
LinearTraceBack(previous_nodes, start_node, current, path) ==
    IF current = None THEN path
    ELSE LET path1 == <<current>> \o path
             prev == previous_nodes[current]
         IN  IF prev = start_node THEN <<start_node>> \o path1
             ELSE LinearTraceBack(previous_nodes, start_node, prev, path1)

\* the test of distances[end_node] left out before the walk back
find_shortest_path_unchecked(g, start_node, end_node, order) ==
    IF ~IsNode(g, start_node) \/ ~IsNode(g, end_node) THEN <<>>
    ELSE LET r == LinearLoop(g, end_node, order,
                             [n \in DOMAIN g |-> IF n = start_node THEN FloatZero ELSE FloatInfinity],
                             [n \in DOMAIN g |-> None],
                             {}, DOMAIN g)
         IN  LinearTraceBack(r.previous, start_node, end_node, <<>>)

\* find_shortest_path(graph, start_node, end_node) of the generator and of the
\* interactive drivers; `order` is the iteration order of the unvisited set.
find_shortest_path(g, start_node, end_node, order) ==
    IF ~IsNode(g, start_node) \/ ~IsNode(g, end_node) THEN <<>>
    ELSE LET r == LinearLoop(g, end_node, order,
                             [n \in DOMAIN g |-> IF n = start_node THEN FloatZero ELSE FloatInfinity],
                             [n \in DOMAIN g |-> None],
                             {}, DOMAIN g)
         IN  IF r.distances[end_node] = FloatInfinity THEN <<>>
             ELSE LinearTraceBack(r.previous, start_node, end_node, <<>>)

\* ---------------------------------------------------------------- PathFinder, heap
\* heapq.heappop(pq): the least (distance, word) tuple
HeapMin(pq) ==
    CHOOSE t \in pq : \A u \in pq : FloatLess(t[1], u[1]) \/ (t[1] = u[1] /\ t[2] <= u[2])

RECURSIVE HeapLoop(_, _, _, _, _, _)
HeapLoop(g, end, distances, previous, pq, visited) ==
    IF pq = {} THEN [distances |-> distances, previous |-> previous]
    ELSE LET top == HeapMin(pq)
             current_dist == top[1]
             current == top[2]
             pq1 == pq \ {top}
         IN  IF current \in visited
             THEN HeapLoop(g, end, distances, previous, pq1, visited)
             ELSE LET visited1 == visited \cup {current} IN
                  IF current = end
                  THEN [distances |-> distances, previous |-> previous]
                  ELSE LET pushed == {<<FloatAdd(current_dist, Cost(Edges(g, current)[n])), n>> :
                                        n \in {m \in DOMAIN g :
                                                Improves(g, current, current_dist,
                                                         visited1, distances, m)}}
                       IN  HeapLoop(g, end,
                                    RelaxDistances(g, current, current_dist, visited1,
                                                   distances),
                                    RelaxPrevious(g, current, current_dist, visited1,
                                                  distances, previous),
                                    pq1 \cup pushed, visited1)

\* while current is not None: path.insert(0, current); current = previous[current]
RECURSIVE HeapTraceBack(_, _, _)
HeapTraceBack(previous, current, path) ==
    IF current = None THEN path
    ELSE HeapTraceBack(previous, previous[current], <<current>> \o path)

\* HeuristicSolver.find_shortest_path(start, end)
solver_find_shortest_path(g, start, end) ==
    IF ~IsNode(g, start) \/ ~IsNode(g, end) THEN <<>>
    ELSE IF start = end THEN <<start>>
    ELSE LET r == HeapLoop(g, end,
                           [n \in DOMAIN g |-> IF n = start THEN FloatZero ELSE FloatInfinity],
                           [n \in DOMAIN g |-> None],
                           {<<FloatZero, start>>}, {})
         IN  IF r.distances[end] = FloatInfinity THEN <<>>
             ELSE HeapTraceBack(r.previous, end, <<>>)

\* ---------------------------------------------------------------- generator graphs
\* A two-way chain 1 - 2 - 3 - 4 - 5 - 6 of similarity 0.9, with dissimilar
\* extra edges that give the words 1, 2 and 6 three neighbors.  The pairs that
\* pass every constraint are (1,6) and (6,1), five hops, and (2,6) and (6,2),
\* four hops.
ChainEdges ==
    (1 :> (2 :> 90 @@ 3 :> 0 @@ 4 :> 0)) @@
    (2 :> (1 :> 90 @@ 3 :> 90 @@ 4 :> 0)) @@
    (3 :> (2 :> 90 @@ 4 :> 90)) @@
    (4 :> (3 :> 90 @@ 5 :> 90)) @@
    (5 :> (4 :> 90 @@ 6 :> 90)) @@
    (6 :> (5 :> 90 @@ 4 :> 0 @@ 3 :> 0))

ChainTsne ==
    (1 :> <<0, 0>>) @@ (2 :> <<0, 30>>) @@ (3 :> <<5, 5>>) @@
    (4 :> <<10, 10>>) @@ (5 :> <<15, 15>>) @@ (6 :> <<30, 0>>)

ChainGraph == [u \in 1..6 |-> [edges |-> ChainEdges[u], tsne |-> ChainTsne[u]]]

\* Two cheapest paths of the same cost from 1 to 6: 1 -> 2 -> 3 -> 4 -> 6 (four
\* hops) and 1 -> 5 -> 6 (two hops); the words 4 and 5 are at the same distance
\* from 1, so the order of the scan decides which of them reaches 6 first.
TieEdges ==
    (1 :> (2 :> 75 @@ 5 :> 25 @@ 3 :> 0)) @@
    (2 :> (3 :> 75)) @@
    (3 :> (4 :> 75)) @@
    (4 :> (6 :> 75)) @@
    (5 :> (6 :> 75)) @@
    (6 :> (3 :> 50 @@ 4 :> 50 @@ 5 :> 50))

TieTsne ==
    (1 :> <<0, 0>>) @@ (2 :> <<1, 1>>) @@ (3 :> <<2, 2>>) @@
    (4 :> <<3, 3>>) @@ (5 :> <<4, 4>>) @@ (6 :> <<30, 0>>)

TieGraph == [u \in 1..6 |-> [edges |-> TieEdges[u], tsne |-> TieTsne[u]]]

GenGraphs == {ChainGraph, TieGraph}

\* ---------------------------------------------------------------- generate_valid_pair
NoPair == [startWord |-> None, targetWord |-> None, pathLength |-> 0]

\* the words of the path counted instead of its hops
PathLengthInWords(path) == Len(path)

\* path_length = len(path) - 1 if path else 0
PathLength(path) == IF path # <<>> THEN Len(path) - 1 ELSE 0

\* dx*dx + dy*dy
DistSquared(s_tsne, e_tsne) ==
    (s_tsne[1] - e_tsne[1]) * (s_tsne[1] - e_tsne[1])
        + (s_tsne[2] - e_tsne[2]) * (s_tsne[2] - e_tsne[2])

\* min_distance: halved when a target_path_length <= 4 is given
MinDistance(target_path_length) ==
    IF target_path_length # None /\ target_path_length <= 4
    THEN MIN_TSNE_DISTANCE_SQUARED \div 2
    ELSE MIN_TSNE_DISTANCE_SQUARED

\* min_degree: 1 when a target_path_length <= 4 is given
MinDegree(target_path_length) ==
    IF target_path_length # None /\ target_path_length <= 4 THEN 1 ELSE MIN_NODE_DEGREE

Degree(g, w) == Cardinality(DOMAIN Edges(g, w))

\* One iteration of the for loop of generate_valid_pair on the drawn words:
\* the pair it returns, or NoPair when the iteration ends in "continue" or
\* falls through.  start_used and target_used are the results of the tests
\* "start_word in used_start_words" and "end_word in used_target_words";
\* `path` is the result of find_shortest_path(graph, start_word, end_word).
TryPair(g, start_word, end_word, start_used, target_used, target_path_length, path) ==
    IF start_used \/ target_used THEN NoPair
    ELSE IF DistSquared(g[start_word].tsne, g[end_word].tsne)
                < MinDistance(target_path_length) THEN NoPair
    ELSE IF Degree(g, start_word) < MinDegree(target_path_length)
            \/ Degree(g, end_word) < MinDegree(target_path_length) THEN NoPair
    ELSE IF MIN_PATH_LENGTH <= PathLength(path) /\ PathLength(path) <= MAX_PATH_LENGTH
         THEN [startWord |-> start_word, targetWord |-> end_word,
               pathLength |-> PathLength(path)]
         ELSE NoPair

\* ---------------------------------------------------------------- generate_chunk, main
Procs == 1..NumProcesses

GenOrders(g) == {Ascending(DOMAIN g), Reverse(Ascending(DOMAIN g))}

\* find_shortest_path is a function of the graph, the two words and the
\* iteration order of the run alone; its results on the generator's graphs
\* are tabulated once, as the set of <<arguments, result>>.
ShortestPathTable ==
    UNION {UNION {{<<<<g, order, start_node, end_node>>,
                     find_shortest_path(g, start_node, end_node, order)>> :
                        <<start_node, end_node>> \in (DOMAIN g) \X (DOMAIN g)} :
                    order \in GenOrders(g)} :
            g \in GenGraphs}

ShortestPath(g, start_node, end_node, order) ==
    (CHOOSE t \in ShortestPathTable : t[1] = <<g, order, start_node, end_node>>)[2]

\* pair_key = tuple(sorted((start_word, target_word)))
PairKey(pair) ==
    IF pair.startWord <= pair.targetWord
    THEN <<pair.startWord, pair.targetWord>>
    ELSE <<pair.targetWord, pair.startWord>>

RECURSIVE SumOver(_, _)
SumOver(f, S) ==
    IF S = {} THEN 0
    ELSE LET x == CHOOSE y \in S : TRUE IN f[x] + SumOver(f, S \ {x})

\* num_chunks = (total_pairs_needed + CHUNK_SIZE - 1) // CHUNK_SIZE
NumChunks(q) == (SumOver(q, DOMAIN q) + CHUNK_SIZE - 1) \div CHUNK_SIZE

IdleWorker ==
    [pc |-> "idle", chunk |-> 0, attempts |-> 0, start_word |-> None, end_word |-> None,
     pair_info |-> NoPair, path |-> <<>>,
     chunk_pairs |-> <<>>, chunk_paths |-> <<>>, generated_pairs |-> {}, count |-> 0]

\* A pool process takes the next element of chunk_args and enters
\* generate_chunk.  The processes are interchangeable: the idle one of the
\* least index takes it.
StartChunk(w) ==
    /\ main_pc = "generating"
    /\ worker[w].pc = "idle"
    /\ \A v \in Procs : v < w => worker[v].pc # "idle"
    /\ next_chunk <= NumChunks(quota)
    /\ worker' = [worker EXCEPT ![w] = [IdleWorker EXCEPT !.pc = "loop", !.chunk = next_chunk]]
    /\ next_chunk' = next_chunk + 1
    /\ UNCHANGED <<pb, hs, gs, bg, graph, scan_order, pf, quota, used_start_words, used_target_words,
                   needed_pairs, chunk_results, main_pc, all_pairs, recheck>>

\* while any(count > 0 for count in needed_pairs.values()): one read of the
\* shared dictionary; when it is false generate_chunk returns chunk_pairs.
LoopCheck(w) ==
    /\ worker[w].pc = "loop"
    /\ IF \E L \in DOMAIN needed_pairs : needed_pairs[L] > 0
       THEN /\ worker' = [worker EXCEPT ![w].pc = "attempt", ![w].attempts = 0]
            /\ UNCHANGED chunk_results
       ELSE /\ chunk_results' = [chunk_results EXCEPT ![worker[w].chunk] = worker[w].chunk_pairs]
            /\ worker' = [worker EXCEPT ![w] = IdleWorker]
    /\ UNCHANGED <<pb, hs, gs, bg, graph, scan_order, pf, quota, used_start_words, used_target_words,
                   needed_pairs, next_chunk, main_pc, all_pairs, recheck>>

\* One iteration of the for loop of generate_valid_pair, called with
\* target_path_length = None.  "if start_word in used_start_words or end_word
\* in used_target_words" is two calls of the dictionary proxies, the second
\* made only when the first finds nothing, and the other processes run
\* between them; the rest of the iteration is local.  A pair is returned to
\* generate_chunk; after MAX_ATTEMPTS_PER_PAIR iterations None is returned and
\* generate_chunk goes back to its while condition.
Draw(start_word, end_word, target_used) ==
    LET path == ShortestPath(graph, start_word, end_word, scan_order)
        pair == TryPair(graph, start_word, end_word, FALSE, target_used, None, path)
    IN  [pair |-> pair, path |-> IF pair = NoPair THEN <<>> ELSE path]

\* start_index and end_index are random, end_index drawn again until it differs
Draws == {p \in (DOMAIN graph) \X (DOMAIN graph) : p[1] # p[2]}

\* the iteration ends: the pair is returned, or the next iteration begins, or
\* None is returned
AfterIteration(w, d) ==
    [worker EXCEPT
        ![w].attempts = @ + 1,
        ![w].start_word = None,
        ![w].end_word = None,
        ![w].pair_info = d.pair,
        ![w].path = d.path,
        ![w].pc = IF d.pair # NoPair THEN "check"
                  ELSE IF worker[w].attempts + 1 >= MAX_ATTEMPTS_PER_PAIR THEN "loop"
                  ELSE "attempt"]

\* the words are drawn and "start_word in used_start_words" is evaluated
Attempt(w) ==
    /\ worker[w].pc = "attempt"
    /\ \E p \in Draws :
         IF p[1] \in used_start_words
         THEN worker' = AfterIteration(w, [pair |-> NoPair, path |-> <<>>])
         ELSE worker' = [worker EXCEPT ![w].start_word = p[1], ![w].end_word = p[2],
                                       ![w].pc = "test_target"]
    /\ UNCHANGED <<pb, hs, gs, bg, graph, scan_order, pf, quota, used_start_words, used_target_words,
                   needed_pairs, next_chunk, chunk_results, main_pc, all_pairs, recheck>>

\* "end_word in used_target_words" is evaluated, and the iteration goes on
\* to its end
AttemptTarget(w) ==
    /\ worker[w].pc = "test_target"
    /\ worker' = AfterIteration(w, Draw(worker[w].start_word, worker[w].end_word,
                                        worker[w].end_word \in used_target_words))
    /\ UNCHANGED <<pb, hs, gs, bg, graph, scan_order, pf, quota, used_start_words, used_target_words,
                   needed_pairs, next_chunk, chunk_results, main_pc, all_pairs, recheck>>

\* if path_length not in needed_pairs or needed_pairs[path_length] <= 0: continue
\* if pair_key not in generated_pairs: chunk_pairs.append(pair_info); ...
CheckQuota(w) ==
    /\ worker[w].pc = "check"
    /\ LET pair == worker[w].pair_info IN
       IF pair.pathLength \notin DOMAIN needed_pairs \/ needed_pairs[pair.pathLength] <= 0
       THEN worker' = [worker EXCEPT ![w].pc = "loop"]
       ELSE IF PairKey(pair) \in worker[w].generated_pairs
       THEN worker' = [worker EXCEPT ![w].pc = "loop"]
       ELSE worker' = [worker EXCEPT
                ![w].chunk_pairs = Append(@, pair),
                ![w].chunk_paths = Append(@, worker[w].path),
                ![w].generated_pairs = @ \cup {PairKey(pair)},
                ![w].pc = "use_start"]
    /\ UNCHANGED <<pb, hs, gs, bg, graph, scan_order, pf, quota, used_start_words, used_target_words,
                   needed_pairs, next_chunk, chunk_results, main_pc, all_pairs, recheck>>

\* used_start_words[start_word] = True
PublishStart(w) ==
    /\ worker[w].pc = "use_start"
    /\ used_start_words' = used_start_words \cup {worker[w].pair_info.startWord}
    /\ worker' = [worker EXCEPT ![w].pc = "use_target"]
    /\ UNCHANGED <<pb, hs, gs, bg, graph, scan_order, pf, quota, used_target_words, needed_pairs,
                   next_chunk, chunk_results, main_pc, all_pairs, recheck>>

\* used_target_words[target_word] = True
PublishTarget(w) ==
    /\ worker[w].pc = "use_target"
    /\ used_target_words' = used_target_words \cup {worker[w].pair_info.targetWord}
    /\ worker' = [worker EXCEPT ![w].pc = "read_count"]
    /\ UNCHANGED <<pb, hs, gs, bg, graph, scan_order, pf, quota, used_start_words, needed_pairs,
                   next_chunk, chunk_results, main_pc, all_pairs, recheck>>

\* needed_pairs[path_length] -= 1 on a dictionary proxy: __getitem__ ...
ReadCount(w) ==
    /\ worker[w].pc = "read_count"
    /\ worker' = [worker EXCEPT ![w].count = needed_pairs[worker[w].pair_info.pathLength],
                                ![w].pc = "write_count"]
    /\ UNCHANGED <<pb, hs, gs, bg, graph, scan_order, pf, quota, used_start_words, used_target_words,
                   needed_pairs, next_chunk, chunk_results, main_pc, all_pairs, recheck>>

\* ... and then __setitem__ with the value read, less one
WriteCount(w) ==
    /\ worker[w].pc = "write_count"
    /\ needed_pairs' = [needed_pairs EXCEPT ![worker[w].pair_info.pathLength] =
                            worker[w].count - 1]
    /\ worker' = [worker EXCEPT ![w].pc = "loop", ![w].count = 0]
    /\ UNCHANGED <<pb, hs, gs, bg, graph, scan_order, pf, quota, used_start_words, used_target_words,
                   next_chunk, chunk_results, main_pc, all_pairs, recheck>>

RECURSIVE Flatten(_, _)
Flatten(results, i) ==
    IF i > Len(results) THEN <<>> ELSE results[i] \o Flatten(results, i + 1)

AllReturned ==
    /\ next_chunk > NumChunks(quota)
    /\ \A w \in Procs : worker[w].pc = "idle"

\* pool.map has returned: for chunk in chunk_results: all_pairs.extend(chunk)
Combine ==
    /\ main_pc = "generating"
    /\ AllReturned
    /\ all_pairs' = Flatten(chunk_results, 1)
    /\ main_pc' = "combined"
    /\ UNCHANGED <<pb, hs, gs, bg, graph, scan_order, pf, quota, used_start_words, used_target_words,
                   needed_pairs, next_chunk, chunk_results, worker, recheck>>

NoCheck == [pair |-> NoPair, recalculated_length |-> 0]

\* process_batch of test_daily_pairs_llm.py, in a later interpreter run:
\* optimal_path = find_shortest_path(graph_nodes, start_word, end_word)
\* recalculated_length = len(optimal_path) - 1 if optimal_path else float('inf')
Recompute(i, order) ==
    /\ main_pc = "combined"
    /\ recheck = NoCheck
    /\ i \in 1..Len(all_pairs)
    /\ LET optimal_path == ShortestPath(graph, all_pairs[i].startWord,
                                         all_pairs[i].targetWord, order)
       IN  recheck' = [pair |-> all_pairs[i],
                       recalculated_length |->
                           IF optimal_path # <<>> THEN Len(optimal_path) - 1 ELSE Infinity]
    /\ UNCHANGED <<pb, hs, gs, bg, graph, scan_order, pf, quota, used_start_words, used_target_words,
                   needed_pairs, next_chunk, chunk_results, worker, main_pc, all_pairs>>

Quotas == [TARGET_PATH_LENGTHS -> 0..MaxQuota]

\* the dictionary returned by _solve_single_attempt and by solve_puzzle
Result(path, steps, status, reason, optimal_length) ==
    [path |-> path, steps |-> steps, status |-> status, reason |-> reason,
     optimal_length |-> optimal_length]

NoResult == Result(<<>>, 0, "none", "", 0)

\* no solve_puzzle call
NoCall ==
    [pc |-> "idle", start_word |-> None, target_word |-> None, max_steps |-> 0,
     max_retries |-> 0, optimal_length |-> 0, attempt |-> 0, current_word |-> None,
     path |-> <<>>, steps |-> 0, attempts |-> <<>>, result |-> NoResult,
     final_attempt |-> 0]

\* no interactive session
NoSession ==
    [pc |-> "idle", start_word |-> None, end_word |-> None, current_word |-> None,
     target_word |-> None, path_so_far |-> <<>>, neighbors |-> <<>>, steps_taken |-> 0,
     optimal_path |-> <<>>, suggested_path |-> <<>>, previous_distances |-> <<>>,
     rationales |-> <<>>, invalid_moves |-> <<>>, checkpoints |-> <<>>,
     backtrack_history |-> <<>>, backtrack_attempts |-> 0, retry_count |-> 0,
     awaiting |-> FALSE, solved |-> FALSE, failed |-> FALSE]

\* no build_graph run
NoBuild ==
    [pc |-> "idle", embeddings_dict |-> <<>>, defined |-> {}, k_neighbors |-> 0,
     words |-> <<>>, similarity_matrix |-> <<>>, i |-> 0, nodes |-> <<>>,
     missing_tsne_count |-> 0]

\* no game of a challenge is being played
NoGame ==
    [current_word |-> None, target_word |-> None, path_so_far |-> <<>>,
     neighbors |-> <<>>, steps_taken |-> 0, optimal_path |-> <<>>,
     suggested_path |-> <<>>, invalid_moves |-> {}, retry_count |-> 0,
     backtrack_attempts |-> 0, solved |-> FALSE, failed |-> FALSE]

\* no process_batch call
NoBatch ==
    [pc |-> "idle", challenges |-> <<>>, solved_challenges |-> {}, start_idx |-> 0,
     end_idx |-> 0, i |-> 0, batch_results |-> <<>>, batch_solved |-> 0,
     batch_failed |-> 0, batch_skipped |-> 0, game |-> NoGame]

NoQuery == [start |-> None, end |-> None, ran |-> {}, linear |-> <<>>, heap |-> <<>>]

GenIdle ==
    /\ quota = [L \in TARGET_PATH_LENGTHS |-> 0]
    /\ used_start_words = {}
    /\ used_target_words = {}
    /\ needed_pairs = [L \in TARGET_PATH_LENGTHS |-> 0]
    /\ next_chunk = 1
    /\ chunk_results = <<>>
    /\ worker = [w \in Procs |-> IdleWorker]
    /\ main_pc = "idle"
    /\ all_pairs = <<>>
    /\ recheck = NoCheck

\* main(): the shared dictionaries and the chunk arguments
GenInit ==
    /\ graph \in GenGraphs
    /\ scan_order \in GenOrders(graph)
    /\ pf = NoQuery
    /\ quota \in Quotas
    /\ used_start_words = {}
    /\ used_target_words = {}
    /\ needed_pairs = quota
    /\ next_chunk = 1
    /\ chunk_results = [i \in 1..NumChunks(quota) |-> <<>>]
    /\ worker = [w \in Procs |-> IdleWorker]
    /\ main_pc = "generating"
    /\ all_pairs = <<>>
    /\ recheck = NoCheck
    /\ hs = NoCall
    /\ gs = NoSession
    /\ bg = NoBuild
    /\ pb = NoBatch

WorkerStep(w) ==
    \/ StartChunk(w)
    \/ LoopCheck(w)
    \/ Attempt(w)
    \/ AttemptTarget(w)
    \/ CheckQuota(w)
    \/ PublishStart(w)
    \/ PublishTarget(w)
    \/ ReadCount(w)
    \/ WriteCount(w)

GenNext ==
    \/ \E w \in Procs : WorkerStep(w)
    \/ Combine
    \/ \E i \in 1..Len(all_pairs), order \in GenOrders(graph) : Recompute(i, order)

GenSpec == GenInit /\ [][GenNext]_vars

\* An attempt of process w that draws words which, as the shared dictionaries
\* stand, pass every constraint and make a pair whose length is still needed.
UsefulDraw(w) ==
    /\ Attempt(w)
    /\ worker'[w].pc = "test_target"
    /\ LET d == Draw(worker'[w].start_word, worker'[w].end_word,
                     worker'[w].end_word \in used_target_words)
       IN  /\ d.pair # NoPair
           /\ needed_pairs[d.pair.pathLength] > 0
           /\ PairKey(d.pair) \notin worker[w].generated_pairs

\* Every pool process keeps running, and when random.randint can again and
\* again produce a pair that would be accepted, it eventually does.
GenFairness ==
    /\ \A w \in Procs : WF_vars(WorkerStep(w))
    /\ \A w \in Procs : SF_vars(UsefulDraw(w))
    /\ WF_vars(Combine)

GenFairSpec == GenInit /\ [][GenNext]_vars /\ GenFairness

\* ---------------------------------------------------------------- PathFinder queries
\* pf.ran holds the implementations that have answered the query: the solver's
\* heap-based one first, then the linear scan.
PathInit ==
    /\ graph \in EnumGraphs
    /\ scan_order = <<>>
    /\ GenIdle
    /\ hs = NoCall
    /\ gs = NoSession
    /\ bg = NoBuild
    /\ pb = NoBatch
    /\ \E s \in Words, e \in Words :
         pf = [start |-> s, end |-> e, ran |-> {}, linear |-> <<>>, heap |-> <<>>]

\* The linear scan iterates a set of strings, whose order changes from one
\* interpreter run to the next: every order of the words is possible.
RunLinear ==
    /\ pf.ran = {"heap"}
    /\ \E path \in {find_shortest_path(graph, pf.start, pf.end, order) :
                        order \in Orders(graph)} :
         pf' = [pf EXCEPT !.linear = path, !.ran = @ \cup {"linear"}]
    /\ UNCHANGED <<pb, graph, scan_order, gen_vars, hs, gs, bg>>

RunHeap ==
    /\ pf.ran = {}
    /\ pf' = [pf EXCEPT !.heap = solver_find_shortest_path(graph, pf.start, pf.end),
                        !.ran = @ \cup {"heap"}]
    /\ UNCHANGED <<pb, graph, scan_order, gen_vars, hs, gs, bg>>

PathNext == RunLinear \/ RunHeap

PathSpec == PathInit /\ [][PathNext]_vars

\* ---------------------------------------------------------------- HeuristicSolver
\* Scores are kept as integers: sixty times the source's float score, with a
\* similarity in hundredths.  1000 / (distance + 1) is then 60000 \div (distance + 1),
\* exact for every distance up to five hops.

Max(a, b) == IF a >= b THEN a ELSE b
Min(a, b) == IF a <= b THEN a ELSE b

\* sorted(..., reverse=True) of a set of tuples <<key, word>>: greatest first
RECURSIVE SortedReverse(_)
SortedReverse(S) ==
    IF S = {} THEN <<>>
    ELSE LET x == CHOOSE y \in S :
                     \A z \in S : y[1] > z[1] \/ (y[1] = z[1] /\ y[2] >= z[2])
         IN  <<x>> \o SortedReverse(S \ {x})

\* _calculate_word_degrees
word_degrees(g) == [word \in DOMAIN g |-> Cardinality(DOMAIN Edges(g, word))]

\* _identify_hub_words: sorted(..., key=degree, reverse=True) is stable, so words
\* of equal degree keep the order of the graph's dictionary (here the order of
\* the word numbers); the first max(1, int(n * 0.1)) of them are the hubs.
hub_words(g) ==
    IF DOMAIN g = {} THEN {}
    ELSE LET degrees == word_degrees(g)
             sorted_words == SortedReverse({<<degrees[word], 0 - word>> : word \in DOMAIN g})
             num_hubs == Max(1, Cardinality(DOMAIN g) \div 10)
         IN  {0 - sorted_words[i][2] : i \in 1..num_hubs}

\* get_word_neighbors: the neighbors by similarity, highest first; the sort is
\* stable, so neighbors of equal similarity keep the order of the dictionary
\* The solver's graphs.  DetourGraph: the edge 1 -> 4 is dearer than the path
\* 1 -> 2 -> 4, and word 3 is a dead end.  CycleGraph: 1 and 2 point at each
\* other, and the hub 3 leads on to 4.
DetourEdges ==
    (1 :> (2 :> 100 @@ 3 :> 75 @@ 4 :> 25)) @@ (2 :> (1 :> 100 @@ 4 :> 100))
    @@ (3 :> <<>>) @@ (4 :> (1 :> 25))

CycleEdges ==
    (1 :> (2 :> 100)) @@ (2 :> (1 :> 75 @@ 3 :> 50))
    @@ (3 :> (1 :> 50 @@ 2 :> 50 @@ 4 :> 75)) @@ (4 :> (3 :> 75))

DetourGraph == [w \in DOMAIN DetourEdges |-> [edges |-> DetourEdges[w], tsne |-> <<0, 0>>]]
CycleGraph == [w \in DOMAIN CycleEdges |-> [edges |-> CycleEdges[w], tsne |-> <<0, 0>>]]

SolverGraphs == {DetourGraph, CycleGraph}

\* find_shortest_path of the solver is a function of the graph and the two
\* words alone; its results on the solver's graphs, for the words of the graph
\* and the one word more that a call can name, are computed once.
SolverPaths ==
    [k \in UNION {{<<g, start, end>> : start \in 1..(Cardinality(DOMAIN g) + 1),
                                       end \in 1..(Cardinality(DOMAIN g) + 1)} :
                    g \in SolverGraphs} |->
        solver_find_shortest_path(k[1], k[2], k[3])]

SolverShortestPath(g, start, end) == SolverPaths[<<g, start, end>>]

get_word_neighbors(g, word) ==
    IF ~IsNode(g, word) THEN <<>>
    ELSE LET edges == Edges(g, word)
             sorted_neighbors == SortedReverse({<<edges[n], 0 - n>> : n \in DOMAIN edges})
         IN  [i \in 1..Len(sorted_neighbors) |-> 0 - sorted_neighbors[i][2]]

\* calculate_heuristic_score, times sixty
calculate_heuristic_score(g, word, target, current_path) ==
    IF word = target THEN Infinity
    ELSE LET path_to_target == SolverShortestPath(g, word, target)
             distance_to_target == Len(path_to_target) - 1
         IN    (IF path_to_target # <<>> THEN 60000 \div (distance_to_target + 1) ELSE 0)
             + (IF word \in hub_words(g) THEN 60 * 50 ELSE 0)
             - (IF word \in Range(current_path) THEN 60 * 200 ELSE 0)
             + 60 * 2 * (IF IsNode(g, word) THEN word_degrees(g)[word] ELSE 0)
             + (IF IsNode(g, word) /\ target \in DOMAIN Edges(g, word)
                THEN 60 * Edges(g, word)[target] ELSE 0)

\* neighbor_scores.sort(reverse=True): tuples (score, neighbor), greatest first
neighbor_scores(g, neighbors, target, path) ==
    LET scored == {<<calculate_heuristic_score(g, neighbors[i], target, path), neighbors[i]>> :
                      i \in 1..Len(neighbors)}
    IN  SortedReverse(scored)

\* randomness_factor = min(0.9, 0.15 + attempt * 0.05), in hundredths
randomness_factor(attempt) == Min(90, 15 + attempt * 5)

\* the avoidance switched on from the first attempt
avoid_optimal_from_first(attempt) == attempt >= 0

\* avoid_optimal = attempt > 0
avoid_optimal(attempt) == attempt > 0

\* f"Reached target in {steps} steps"
ReachedTarget(steps) == "Reached target in " \o ToString(steps) \o " steps"

\* f"Exceeded max steps ({max_steps})"
ExceededMaxSteps(max_steps) == "Exceeded max steps (" \o ToString(max_steps) \o ")"

\* f" (failed after {max_retries} attempts)", added to the reason of the result
\* that is returned after the last attempt
FailedAfter(max_retries) == " (failed after " \o ToString(max_retries) \o " attempts)"

\* values of random.random(), in hundredths: one for every side of the
\* thresholds 0.15 .. 0.9 of the source
RandomDraws == {0, 15, 70, 90}

\* a return from inside the loop that reports every result as solved
ReturnsAsSolved(result) ==
    [returned |-> TRUE, result |-> [result EXCEPT !.status = "solved"],
     current_word |-> None, path |-> <<>>, steps |-> 0]

\* One pass through the body of the while loop of _solve_single_attempt: the
\* set of its outcomes over every value of random.random() and random.choice().
\* An outcome either returns the attempt's result or goes round the loop again.
Returns(result) ==
    [returned |-> TRUE, result |-> result, current_word |-> None, path |-> <<>>, steps |-> 0]

Continues(current_word, path, steps) ==
    [returned |-> FALSE, result |-> NoResult, current_word |-> current_word,
     path |-> path, steps |-> steps]

LastWords(path, n) == Range(SubSeq(path, Max(1, Len(path) - n + 1), Len(path)))

Iteration(g, target_word, optimal_length, attempt, current_word, path, steps, r_avoid, r_explore) ==
    LET all_neighbors == get_word_neighbors(g, current_word)
        direct == target_word \in Range(all_neighbors)
        exact == avoid_optimal(attempt) /\ Len(path) = optimal_length
        close == ~exact /\ avoid_optimal(attempt) /\ Len(path) >= optimal_length - 1
        suppress == direct /\ ((exact /\ r_avoid < 90) \/ (close /\ r_avoid < 70))
        NotTarget(n) == n # target_word
        neighbors == IF suppress THEN SelectSeq(all_neighbors, NotTarget) ELSE all_neighbors
    IN  IF all_neighbors = <<>>
        THEN {Returns(Result(path, steps, "failed", "No neighbors available",
                             optimal_length))}
        ELSE IF direct /\ ~suppress
        THEN {Returns(Result(Append(path, target_word), steps + 1, "solved",
                             ReachedTarget(steps + 1), optimal_length))}
        ELSE IF neighbors = <<>>
        THEN {Returns(Result(path, steps, "failed", "No valid neighbors after filtering",
                             optimal_length))}
        ELSE LET scores == neighbor_scores(g, neighbors, target_word, path)
                 top_n == Min(5, Len(scores))
                 explore == Len(scores) > 1 /\ r_explore < randomness_factor(attempt)
                 choices == IF explore THEN {scores[i][2] : i \in 1..top_n}
                            ELSE {scores[1][2]}
                 Move(best_neighbor) ==
                     LET path1 == Append(path, best_neighbor)
                         recent_words == LastWords(path1, 5)
                         Escapes(n) == n \in hub_words(g) /\ n \notin LastWords(path1, 3)
                         hub_neighbors == SelectSeq(neighbors, Escapes)
                     IN  IF Len(path1) > 10 /\ Cardinality(recent_words) <= 2
                            /\ hub_neighbors # <<>>
                         THEN {Continues(h, Append(path1, h), steps + 2) :
                                  h \in Range(hub_neighbors)}
                         ELSE {Continues(best_neighbor, path1, steps + 1)}
             IN  UNION {Move(b) : b \in choices}

IterationOutcomes(g, target_word, optimal_length, attempt, current_word, path, steps) ==
    UNION {Iteration(g, target_word, optimal_length, attempt, current_word, path, steps,
                     r_avoid, r_explore) :
              r_avoid \in RandomDraws, r_explore \in RandomDraws}

\* solve_puzzle accepting every solved attempt that is at least as long as the
\* optimal path (the acceptance test without its margin of two steps)
AfterAttemptAcceptingOptimal(h, result) ==
    LET attempts == Append(h.attempts, [attempt |-> h.attempt + 1,
                                        status |-> result.status,
                                        steps |-> result.steps])
    IN  IF result.status = "solved"
           /\ (result.steps >= h.optimal_length \/ h.attempt = h.max_retries - 1)
        THEN [h EXCEPT !.pc = "done", !.attempts = attempts, !.result = result]
        ELSE IF h.attempt + 1 < h.max_retries
        THEN [h EXCEPT !.attempts = attempts, !.attempt = @ + 1,
                       !.current_word = h.start_word, !.path = <<h.start_word>>,
                       !.steps = 0]
        ELSE [h EXCEPT !.pc = "done", !.attempts = attempts,
                       !.result = [result EXCEPT
                                      !.reason = @ \o FailedAfter(h.max_retries)],
                       !.final_attempt = h.max_retries]

\* solve_puzzle, after _solve_single_attempt has returned result: the result is
\* recorded in attempts (the model keeps its status and steps); a solved one is
\* returned when it is more than one step longer than the optimal path or when
\* this is the last attempt; otherwise the next attempt starts, and after the last one
\* attempts[-1]["result"] is returned with " (failed after N attempts)" added to
\* its reason (best_result is never assigned).
AfterAttempt(h, result) ==
    LET attempts == Append(h.attempts, [attempt |-> h.attempt + 1,
                                        status |-> result.status,
                                        steps |-> result.steps])
    IN  IF result.status = "solved"
           /\ (result.steps > h.optimal_length + 1 \/ h.attempt = h.max_retries - 1)
        THEN [h EXCEPT !.pc = "done", !.attempts = attempts, !.result = result]
        ELSE IF h.attempt + 1 < h.max_retries
        THEN [h EXCEPT !.attempts = attempts, !.attempt = @ + 1,
                       !.current_word = h.start_word, !.path = <<h.start_word>>,
                       !.steps = 0]
        ELSE [h EXCEPT !.pc = "done", !.attempts = attempts,
                       !.result = [result EXCEPT
                                      !.reason = @ \o FailedAfter(h.max_retries)],
                       !.final_attempt = h.max_retries]

\* solve_puzzle up to its first attempt
SolveBegin ==
    /\ hs.pc = "call"
    /\ IF ~IsNode(graph, hs.start_word) \/ ~IsNode(graph, hs.target_word)
       THEN hs' = [hs EXCEPT !.pc = "done",
                     !.result = Result(<<hs.start_word>>, 0, "failed",
                                       "Start or target word not in graph", 0)]
       ELSE IF hs.start_word = hs.target_word
       THEN hs' = [hs EXCEPT !.pc = "done",
                     !.result = Result(<<hs.start_word>>, 0, "solved",
                                       "Start equals target", 0)]
       ELSE LET optimal_path == SolverShortestPath(graph, hs.start_word, hs.target_word)
            IN  hs' = [hs EXCEPT !.pc = "attempt",
                         !.optimal_length = IF optimal_path # <<>>
                                            THEN Len(optimal_path) - 1 ELSE Infinity,
                         !.attempt = 0, !.current_word = hs.start_word,
                         !.path = <<hs.start_word>>, !.steps = 0]
    /\ UNCHANGED <<pb, graph, scan_order, pf, gen_vars, gs, bg>>

\* while steps < max_steps and current_word != target_word: one iteration
SolveStep ==
    /\ hs.pc = "attempt"
    /\ hs.steps < hs.max_steps /\ hs.current_word # hs.target_word
    /\ \E o \in IterationOutcomes(graph, hs.target_word, hs.optimal_length, hs.attempt,
                                  hs.current_word, hs.path, hs.steps) :
         hs' = IF o.returned THEN AfterAttempt(hs, o.result)
               ELSE [hs EXCEPT !.current_word = o.current_word, !.path = o.path,
                               !.steps = o.steps]
    /\ UNCHANGED <<pb, graph, scan_order, pf, gen_vars, gs, bg>>

\* the while condition is false: "Check final status"
SolveLoopExit ==
    /\ hs.pc = "attempt"
    /\ ~(hs.steps < hs.max_steps /\ hs.current_word # hs.target_word)
    /\ hs' = AfterAttempt(hs,
                IF hs.current_word = hs.target_word
                THEN Result(hs.path, hs.steps, "solved", ReachedTarget(hs.steps),
                            hs.optimal_length)
                ELSE Result(hs.path, hs.steps, "failed", ExceededMaxSteps(hs.max_steps),
                            hs.optimal_length))
    /\ UNCHANGED <<pb, graph, scan_order, pf, gen_vars, gs, bg>>

\* max_steps of a call
StepBudgets == {0, MaxSteps}

SolveInit ==
    /\ graph \in SolverGraphs
    /\ scan_order = <<>>
    /\ pf = NoQuery
    /\ GenIdle
    /\ \E s \in 1..(Cardinality(DOMAIN graph) + 1), t \in 1..(Cardinality(DOMAIN graph) + 1),
          max_steps \in StepBudgets, max_retries \in 1..MaxRetries :
         hs = [NoCall EXCEPT !.pc = "call", !.start_word = s, !.target_word = t,
                             !.max_steps = max_steps, !.max_retries = max_retries]
    /\ gs = NoSession
    /\ bg = NoBuild
    /\ pb = NoBatch

SolveNext == SolveBegin \/ SolveStep \/ SolveLoopExit

SolverSpec == SolveInit /\ [][SolveNext]_vars

\* ---------------------------------------------------------------- interactive session
\* solve_puzzle of scripts/test_playtest_pairs_ab.py: the engine validates the
\* moves an external proposer sends one at a time.  The text of a proposal is
\* an integer: w is the spelling of word w as the graph has it, w + Upper the
\* same word in another letter case, and a number that is neither names no
\* word of the graph.
MAX_RETRIES_PER_MOVE == 2   \* the source sets 10
MAX_STEPS_PER_PUZZLE == 5   \* the source sets 30
MAX_BACKTRACKS == 3         \* "current_state.backtrack_attempts < 3"

Upper == 100

\* normalize_word: word.lower()
normalize_word(word) == IF word > Upper THEN word - Upper ELSE word

Normalized(s) == [i \in 1..Len(s) |-> normalize_word(s[i])]

\* get_word_neighbors: the keys of the edges, in the order of the dictionary,
\* that are words of the graph
ab_get_word_neighbors(g, current_word) ==
    IF ~IsNode(g, current_word) THEN <<>>
    ELSE Ascending({n \in DOMAIN Edges(g, current_word) : IsNode(g, n)})

\* The sessions' graph: 1 - 2 - 3 - 4 - 5 along edges of similarity 1.0, with
\* the way back, and the weaker side edges 1 -> 3 and 2 -> 4.
SessionEdges ==
    (1 :> (2 :> 100 @@ 3 :> 50)) @@ (2 :> (1 :> 100 @@ 3 :> 100 @@ 4 :> 25))
    @@ (3 :> (2 :> 100 @@ 4 :> 100)) @@ (4 :> (3 :> 100 @@ 5 :> 100))
    @@ (5 :> (4 :> 100))

SessionGraph ==
    [w \in DOMAIN SessionEdges |-> [edges |-> SessionEdges[w], tsne |-> <<0, 0>>]]

\* The words 1 and 3 point at each other beside the way 2 - 3 - 4, so that a
\* session from 2 to 4 can go round 1 and 3, words of which 1 lies neither on
\* the optimal path nor on a suggested path.
LoopEdges ==
    (1 :> (3 :> 100)) @@ (2 :> (1 :> 50 @@ 3 :> 100))
    @@ (3 :> (1 :> 50 @@ 4 :> 100)) @@ (4 :> (3 :> 100))

LoopGraph == [w \in DOMAIN LoopEdges |-> [edges |-> LoopEdges[w], tsne |-> <<0, 0>>]]

\* the results of find_shortest_path on the sessions' graphs, computed once
SessionPaths ==
    [k \in UNION {{<<g, order, start, end>> :
                     order \in GenOrders(g), start \in DOMAIN g, end \in DOMAIN g} :
                 g \in {SessionGraph, LoopGraph}} |->
        find_shortest_path(k[1], k[3], k[4], k[2])]

\* find_shortest_path of this script: the loop of generate_daily_pairs.py with
\* min(unvisited, key=...) for the scan; min returns the first least element
\* in the iteration order of the set, as the scan does
ab_find_shortest_path(g, start, end, order) ==
    IF <<g, order, start, end>> \in DOMAIN SessionPaths
    THEN SessionPaths[<<g, order, start, end>>]
    ELSE find_shortest_path(g, start, end, order)

\* the cycle detection of a valid neighbor: the occurrences of the last
\* cycle_length words earlier in the path are counted over the cycle lengths
\* 2..6 (cycle_count is not reset between lengths) until there are two
CycleMatches(path_normalized, cycle_length) ==
    LET n == Len(path_normalized)
        last_sequence == SubSeq(path_normalized, n - cycle_length + 1, n)
    IN  Cardinality({i \in 0..(n - cycle_length - 1) :
                        SubSeq(path_normalized, i + 1, i + cycle_length) = last_sequence})

cycle_detected(path_normalized) ==
    LET lengths == 2..(Min(7, (Len(path_normalized) \div 2) + 1) - 1)
        counts == [cycle_length \in lengths |-> CycleMatches(path_normalized, cycle_length)]
    IN  SumOver(counts, lengths) >= 2

\* update_checkpoints that looks the word up in the suggested path as it is
\* after the move
update_checkpoints_after_move(state, old_suggested_path) ==
    IF Len(state.path_so_far) < 2 THEN state
    ELSE LET current_word == Last(state.path_so_far)
             current_index == Len(state.path_so_far) - 1
             is_global == current_word \in Range(state.optimal_path)
             is_local == current_word \in Range(state.suggested_path)
             checkpoint == [word |-> current_word, index |-> current_index,
                            type |-> IF is_global /\ is_local THEN "G,L"
                                     ELSE IF is_global THEN "G" ELSE "L",
                            used |-> FALSE]
         IN  IF is_global \/ is_local
             THEN [state EXCEPT !.checkpoints = Append(@, checkpoint)]
             ELSE state

\* update_checkpoints: the word just moved to becomes a checkpoint when it lies
\* on the optimal path or on the suggested path as it was before the move
update_checkpoints(state, old_suggested_path) ==
    IF Len(state.path_so_far) < 2 THEN state
    ELSE LET current_word == Last(state.path_so_far)
             current_index == Len(state.path_so_far) - 1
             is_global == current_word \in Range(state.optimal_path)
             is_local == current_word \in Range(old_suggested_path)
             checkpoint == [word |-> current_word, index |-> current_index,
                            type |-> IF is_global /\ is_local THEN "G,L"
                                     ELSE IF is_global THEN "G" ELSE "L",
                            used |-> FALSE]
         IN  IF is_global \/ is_local
             THEN [state EXCEPT !.checkpoints = Append(@, checkpoint)]
             ELSE state

\* every checkpoint offered again, used or not
all_checkpoints_available(state) == state.checkpoints

\* get_available_backtrack_options: the unused checkpoints whose word no
\* earlier backtrack went to, in the order of the list
get_available_backtrack_options(state) ==
    LET Available(checkpoint) ==
            /\ ~checkpoint.used
            /\ \A e \in 1..Len(state.backtrack_history) :
                   state.backtrack_history[e].to # checkpoint.word
    IN  SelectSeq(state.checkpoints, Available)

\* the checkpoint that was made first
oldest_checkpoint(available_backtracks) == available_backtracks[1]

\* max(available_backtracks, key=lambda x: x["index"]): the first of the
\* checkpoints of greatest index
best_checkpoint(available_backtracks) ==
    LET first == CHOOSE i \in 1..Len(available_backtracks) :
                     /\ \A j \in 1..Len(available_backtracks) :
                            available_backtracks[j].index <= available_backtracks[i].index
                     /\ \A j \in 1..(i - 1) :
                            available_backtracks[j].index < available_backtracks[i].index
    IN  available_backtracks[first]

\* the position in the list of the checkpoint the marking loop marks: the
\* first one with the word and the index of the target (0: none)
MarkedPosition(checkpoints, target_word, target_index) ==
    LET hits == {c \in 1..Len(checkpoints) :
                    checkpoints[c].word = target_word /\ checkpoints[c].index = target_index}
    IN  IF hits = {} THEN 0 ELSE CHOOSE c \in hits : \A d \in hits : c <= d

\* Python's s[:n] for n >= 0
Prefix(s, n) == SubSeq(s, 1, Min(n, Len(s)))

\* backtrack_to_checkpoint that leaves backtrack_attempts as it was
backtrack_without_counting(state, checkpoint, g, end_word, order) ==
    LET target_index == checkpoint.index
        target_word == checkpoint.word
        failed_path == SubSeq(state.path_so_far, target_index + 1, Len(state.path_so_far))
        backtrack_event == [from |-> state.current_word, to |-> target_word,
                            failed_path |-> failed_path]
        marked == MarkedPosition(state.checkpoints, target_word, target_index)
    IN  [state EXCEPT
            !.backtrack_history = Append(@, backtrack_event),
            !.checkpoints = [c \in 1..Len(@) |->
                                IF c = marked THEN [@[c] EXCEPT !.used = TRUE] ELSE @[c]],
            !.path_so_far = Prefix(@, target_index + 1),
            !.current_word = target_word,
            !.steps_taken = target_index,
            !.neighbors = ab_get_word_neighbors(g, target_word),
            !.suggested_path = ab_find_shortest_path(g, target_word, end_word, order),
            !.previous_distances = Prefix(@, target_index + 1),
            !.rationales = Prefix(@, target_index),
            !.invalid_moves = <<>>]

\* backtrack_to_checkpoint that marks no checkpoint as used
backtrack_without_marking(state, checkpoint, g, end_word, order) ==
    LET target_index == checkpoint.index
        target_word == checkpoint.word
        failed_path == SubSeq(state.path_so_far, target_index + 1, Len(state.path_so_far))
        backtrack_event == [from |-> state.current_word, to |-> target_word,
                            failed_path |-> failed_path]
    IN  [state EXCEPT
            !.backtrack_history = Append(@, backtrack_event),
            !.backtrack_attempts = @ + 1,
            !.path_so_far = Prefix(@, target_index + 1),
            !.current_word = target_word,
            !.steps_taken = target_index,
            !.neighbors = ab_get_word_neighbors(g, target_word),
            !.suggested_path = ab_find_shortest_path(g, target_word, end_word, order),
            !.previous_distances = Prefix(@, target_index + 1),
            !.rationales = Prefix(@, target_index),
            !.invalid_moves = <<>>]

\* backtrack_to_checkpoint that leaves the suggested path of the abandoned
\* position in place
backtrack_keeping_suggested_path(state, checkpoint, g, end_word, order) ==
    LET target_index == checkpoint.index
        target_word == checkpoint.word
        failed_path == SubSeq(state.path_so_far, target_index + 1, Len(state.path_so_far))
        backtrack_event == [from |-> state.current_word, to |-> target_word,
                            failed_path |-> failed_path]
        marked == MarkedPosition(state.checkpoints, target_word, target_index)
    IN  [state EXCEPT
            !.backtrack_history = Append(@, backtrack_event),
            !.backtrack_attempts = @ + 1,
            !.checkpoints = [c \in 1..Len(@) |->
                                IF c = marked THEN [@[c] EXCEPT !.used = TRUE] ELSE @[c]],
            !.path_so_far = Prefix(@, target_index + 1),
            !.current_word = target_word,
            !.steps_taken = target_index,
            !.neighbors = ab_get_word_neighbors(g, target_word),
            !.previous_distances = Prefix(@, target_index + 1),
            !.rationales = Prefix(@, target_index),
            !.invalid_moves = <<>>]

\* backtrack_to_checkpoint
backtrack_to_checkpoint(state, checkpoint, g, end_word, order) ==
    LET target_index == checkpoint.index
        target_word == checkpoint.word
        failed_path == SubSeq(state.path_so_far, target_index + 1, Len(state.path_so_far))
        backtrack_event == [from |-> state.current_word, to |-> target_word,
                            failed_path |-> failed_path]
        marked == MarkedPosition(state.checkpoints, target_word, target_index)
    IN  [state EXCEPT
            !.backtrack_history = Append(@, backtrack_event),
            !.backtrack_attempts = @ + 1,
            !.checkpoints = [c \in 1..Len(@) |->
                                IF c = marked THEN [@[c] EXCEPT !.used = TRUE] ELSE @[c]],
            !.path_so_far = Prefix(@, target_index + 1),
            !.current_word = target_word,
            !.steps_taken = target_index,
            !.neighbors = ab_get_word_neighbors(g, target_word),
            !.suggested_path = ab_find_shortest_path(g, target_word, end_word, order),
            !.previous_distances = Prefix(@, target_index + 1),
            !.rationales = Prefix(@, target_index),
            !.invalid_moves = <<>>]

\* after the inner loop was left by break: "if current_state.steps_taken >=
\* MAX_STEPS_PER_PUZZLE", then the test of the outer loop and a new turn
NextTurn(state) ==
    LET failed == state.steps_taken >= MAX_STEPS_PER_PUZZLE
    IN  [state EXCEPT !.failed = failed,
                      !.pc = IF state.solved \/ failed THEN "done" ELSE "turn",
                      !.retry_count = 0]

\* a proposal that is turned down and not remembered
RetryUncounted(state) == state

\* retry_count += 1; continue
Retry(state) == [state EXCEPT !.retry_count = @ + 1]

\* a rejection that is counted as a step of the path
RejectCountingStep(state, next_word_normalized) ==
    Retry([state EXCEPT !.invalid_moves = Append(@, next_word_normalized),
                        !.steps_taken = @ + 1])

\* the move is remembered as rejected for this turn
Reject(state, next_word_normalized) ==
    Retry([state EXCEPT !.invalid_moves = Append(@, next_word_normalized)])

\* a valid move after which the rejected moves of the turn are kept
AcceptKeepingRejections(state, g, actual_word, order) ==
    LET old_suggested_path == state.suggested_path
        moved == [state EXCEPT
                    !.path_so_far = Append(@, actual_word),
                    !.current_word = actual_word,
                    !.steps_taken = @ + 1,
                    !.previous_distances =
                        Append(@, Len(ab_find_shortest_path(g, actual_word,
                                                            state.target_word, order)) - 1),
                    !.neighbors = ab_get_word_neighbors(g, actual_word),
                    !.rationales = Append(@, 0),
                    !.suggested_path =
                        ab_find_shortest_path(g, actual_word, state.end_word, order)]
    IN  NextTurn(update_checkpoints(moved, old_suggested_path))

\* "Valid move - update game state"
Accept(state, g, actual_word, order) ==
    LET old_suggested_path == state.suggested_path
        moved == [state EXCEPT
                    !.path_so_far = Append(@, actual_word),
                    !.current_word = actual_word,
                    !.steps_taken = @ + 1,
                    !.previous_distances =
                        Append(@, Len(ab_find_shortest_path(g, actual_word,
                                                            state.target_word, order)) - 1),
                    !.neighbors = ab_get_word_neighbors(g, actual_word),
                    !.rationales = Append(@, 0),
                    !.suggested_path =
                        ab_find_shortest_path(g, actual_word, state.end_word, order)]
    IN  NextTurn([update_checkpoints(moved, old_suggested_path) EXCEPT
                     !.invalid_moves = <<>>])

\* the body of the retry loop for one parsed response
Validate(state, g, next_word, order) ==
    LET next_word_normalized == normalize_word(next_word)
        neighbors_normalized == Normalized(state.neighbors)
    IN  IF next_word_normalized \in Range(state.invalid_moves)
        THEN Retry(state)
        ELSE IF next_word_normalized = normalize_word(state.target_word)
        THEN IF next_word_normalized \in Range(neighbors_normalized)
             THEN NextTurn([state EXCEPT
                              !.solved = TRUE,
                              !.path_so_far = Append(@, next_word),
                              !.steps_taken = @ + 1,
                              !.previous_distances = Append(@, 0),
                              !.rationales = Append(@, 0)])
             ELSE Reject(state, next_word_normalized)
        ELSE IF next_word_normalized \in Range(neighbors_normalized)
        THEN LET first == CHOOSE i \in 1..Len(state.neighbors) :
                              /\ neighbors_normalized[i] = next_word_normalized
                              /\ \A j \in 1..(i - 1) :
                                     neighbors_normalized[j] # next_word_normalized
                 actual_word == state.neighbors[first]
                 path_normalized == Append(Normalized(state.path_so_far),
                                           next_word_normalized)
                 is_optimal == next_word_normalized
                                   \in Range(Normalized(state.optimal_path))
                 is_suggested == next_word_normalized
                                     \in Range(Normalized(state.suggested_path))
             IN  IF cycle_detected(path_normalized) /\ ~(is_optimal \/ is_suggested)
                 THEN Reject(state, next_word_normalized)
                 ELSE Accept(state, g, actual_word, order)
        ELSE Reject(state, next_word_normalized)

\* solve_puzzle up to the first turn
SessionBegin ==
    /\ gs.pc = "call"
    /\ LET optimal_path == ab_find_shortest_path(graph, gs.start_word, gs.end_word,
                                                 scan_order)
       IN  IF optimal_path = <<>>
           THEN gs' = [gs EXCEPT !.pc = "done", !.failed = TRUE,
                                 !.path_so_far = <<gs.start_word>>]
           ELSE gs' = [gs EXCEPT
                         !.pc = "turn",
                         !.current_word = gs.start_word,
                         !.target_word = gs.end_word,
                         !.path_so_far = <<gs.start_word>>,
                         !.neighbors = ab_get_word_neighbors(graph, gs.start_word),
                         !.steps_taken = 0,
                         !.optimal_path = optimal_path,
                         !.suggested_path = optimal_path,
                         !.previous_distances = <<Len(optimal_path) - 1>>]
    /\ UNCHANGED <<pb, graph, scan_order, pf, gen_vars, hs, bg>>

\* the texts a proposer may send: the words of the graph in either letter
\* case, and one word the graph does not have
SessionWords == DOMAIN SessionGraph

UnknownWord == Cardinality(SessionWords) + 1

Proposals == SessionWords \cup {UnknownWord} \cup {w + Upper : w \in SessionWords}

\* the pairs played: along the chain and against it, a word with itself, and
\* a start or a target the graph does not have
SessionPairs ==
    {<<1, 5>>, <<2, 4>>, <<4, 1>>, <<3, 3>>, <<1, UnknownWord>>, <<UnknownWord, 1>>}

\* "while retry_count < MAX_RETRIES_PER_MOVE": the request is sent to the
\* proposer and the engine waits for the response
Request ==
    /\ gs.pc = "turn"
    /\ gs.retry_count < MAX_RETRIES_PER_MOVE
    /\ ~gs.awaiting
    /\ gs' = [gs EXCEPT !.awaiting = TRUE]
    /\ UNCHANGED <<pb, graph, scan_order, pf, gen_vars, hs, bg>>

\* the proposer answers with a move
Propose(next_word) ==
    /\ gs.pc = "turn"
    /\ gs.awaiting
    /\ gs' = Validate([gs EXCEPT !.awaiting = FALSE], graph, next_word, scan_order)
    /\ UNCHANGED <<pb, graph, scan_order, pf, gen_vars, hs, bg>>

\* the request raises, or the response holds no parsed move
ProposerFails ==
    /\ gs.pc = "turn"
    /\ gs.awaiting
    /\ gs' = Retry([gs EXCEPT !.awaiting = FALSE])
    /\ UNCHANGED <<pb, graph, scan_order, pf, gen_vars, hs, bg>>

\* "if retry_count >= MAX_RETRIES_PER_MOVE" with a checkpoint to go back to
Backtrack ==
    /\ gs.pc = "turn"
    /\ gs.retry_count >= MAX_RETRIES_PER_MOVE
    /\ LET available_backtracks == get_available_backtrack_options(gs)
       IN  /\ available_backtracks # <<>>
           /\ gs.backtrack_attempts < MAX_BACKTRACKS
           /\ gs' = [backtrack_to_checkpoint(gs, best_checkpoint(available_backtracks),
                                             graph, gs.end_word, scan_order)
                        EXCEPT !.retry_count = 0]
    /\ UNCHANGED <<pb, graph, scan_order, pf, gen_vars, hs, bg>>

\* a session that fails as soon as the retry budget is used up
GiveUpAtOnce ==
    /\ gs.pc = "turn"
    /\ gs.retry_count >= MAX_RETRIES_PER_MOVE
    /\ gs' = [gs EXCEPT !.pc = "done", !.failed = TRUE]
    /\ UNCHANGED <<pb, graph, scan_order, pf, gen_vars, hs, bg>>

\* "if retry_count >= MAX_RETRIES_PER_MOVE" with no backtrack left
GiveUp ==
    /\ gs.pc = "turn"
    /\ gs.retry_count >= MAX_RETRIES_PER_MOVE
    /\ ~(get_available_backtrack_options(gs) # <<>>
         /\ gs.backtrack_attempts < MAX_BACKTRACKS)
    /\ gs' = [gs EXCEPT !.pc = "done", !.failed = TRUE]
    /\ UNCHANGED <<pb, graph, scan_order, pf, gen_vars, hs, bg>>

SessionInit ==
    /\ graph = SessionGraph
    /\ scan_order \in GenOrders(graph)
    /\ pf = NoQuery
    /\ GenIdle
    /\ hs = NoCall
    /\ bg = NoBuild
    /\ pb = NoBatch
    /\ \E pair \in SessionPairs :
         gs = [NoSession EXCEPT !.pc = "call", !.start_word = pair[1],
                                !.end_word = pair[2]]

SessionNext ==
    \/ SessionBegin
    \/ Request
    \/ \E next_word \in Proposals : Propose(next_word)
    \/ ProposerFails
    \/ Backtrack
    \/ GiveUp

SessionSpec == SessionInit /\ [][SessionNext]_vars

\* ---------------------------------------------------------------- build_graph
\* build_graph of scripts/build_graph.py.  An embedding is a unit vector of the
\* plane, given by its direction in steps of 60 degrees, so that the cosine
\* similarity of two embeddings is one of 1.0, 0.5, -0.5 and -1.0 (in
\* hundredths); words of the same direction are as similar to each other as
\* to themselves, and two words 60 degrees to either side of a third are
\* equally similar to it.
MaxWords == 3       \* words of embeddings.pkl
MaxK == 3           \* largest k_neighbors of a run (the default is 5)

RawWords == 1..MaxWords

Directions == {0, 1, 2, 3}

CosineBySteps == <<100, 50, -50, -100>>

\* cosine_similarity of two embeddings
Cosine(a, b) == CosineBySteps[(IF a >= b THEN a - b ELSE b - a) + 1]

\* cosine_similarity(embeddings): the matrix over the positions of words
cosine_similarity(words, embeddings_dict) ==
    [i \in 1..Len(words) |->
        [j \in 1..Len(words) |-> Cosine(embeddings_dict[words[i]], embeddings_dict[words[j]])]]

\* tsne_coordinates.json: the last word of the vocabulary has no coordinates
tsne_coords_map == [w \in 1..(MaxWords - 1) |-> <<w, 0>>]

\* num_to_find positions of greatest similarity, left in any order
SelectedIndices(similarities, num_to_find) ==
    {s \in [1..num_to_find -> DOMAIN similarities] :
        /\ \A p \in 1..num_to_find, q \in 1..num_to_find : p # q => s[p] # s[q]
        /\ \A p \in 1..num_to_find :
               \A idx \in DOMAIN similarities :
                   (\A q \in 1..num_to_find : s[q] # idx) =>
                       similarities[idx] <= similarities[s[p]]}

\* any num_to_find positions, the most similar first
AnyIndicesSorted(similarities, num_to_find) ==
    {s \in [1..num_to_find -> DOMAIN similarities] :
        /\ \A p \in 1..num_to_find, q \in 1..num_to_find : p # q => s[p] # s[q]
        /\ \A p \in 1..(num_to_find - 1) : similarities[s[p]] >= similarities[s[p + 1]]}

\* indices[np.argsort(similarities[indices])[::-1]] over the result of
\* np.argpartition(similarities, -num_to_find)[-num_to_find:]: num_to_find
\* positions of greatest similarity, the most similar first.  Which of several
\* equally similar positions are selected, and in which order they come, is
\* left to numpy: every selection and every order is an outcome.
SortedIndices(similarities, num_to_find) ==
    {s \in [1..num_to_find -> DOMAIN similarities] :
        /\ \A p \in 1..num_to_find, q \in 1..num_to_find : p # q => s[p] # s[q]
        /\ \A p \in 1..(num_to_find - 1) : similarities[s[p]] >= similarities[s[p + 1]]
        /\ \A p \in 1..num_to_find :
               \A idx \in DOMAIN similarities :
                   (\A q \in 1..num_to_find : s[q] # idx) =>
                       similarities[idx] <= similarities[s[p]]}

\* the loop over sorted_indices that takes the word itself for a neighbor too
RowEdgesWithSelf(words, i, similarities, sorted_indices, k_neighbors) ==
    LET found == sorted_indices
    IN  [n \in 1..Min(k_neighbors, Len(found)) |->
            <<words[found[n]], similarities[found[n]]>>]

\* the loop over sorted_indices: the positions other than i, in order, until
\* k_neighbors are found; edges in the order of insertion, as <<word, score>>
RowEdges(words, i, similarities, sorted_indices, k_neighbors) ==
    LET NotSelf(idx) == idx # i
        found == SelectSeq(sorted_indices, NotSelf)
    IN  [n \in 1..Min(k_neighbors, Len(found)) |->
            <<words[found[n]], similarities[found[n]]>>]

\* build_graph up to the loop over the words: the words without a definition
\* are dropped; np.stack of no embedding at all raises and the run exits
BuildFilter ==
    /\ bg.pc = "call"
    /\ LET words == Ascending({w \in DOMAIN bg.embeddings_dict : w \in bg.defined})
       IN  IF words = <<>>
           THEN bg' = [bg EXCEPT !.pc = "exit"]
           ELSE bg' = [bg EXCEPT
                         !.pc = "rows",
                         !.words = words,
                         !.similarity_matrix = cosine_similarity(words, bg.embeddings_dict),
                         !.i = 1]
    /\ UNCHANGED <<pb, graph, scan_order, pf, gen_vars, hs, gs>>

\* one iteration of "for i in range(num_words)"
BuildRow ==
    /\ bg.pc = "rows"
    /\ LET num_words == Len(bg.words)
           word == bg.words[bg.i]
           similarities == bg.similarity_matrix[bg.i]
           num_to_find == Min(bg.k_neighbors + 1, num_words)
           missing == word \notin DOMAIN tsne_coords_map
       IN  \E sorted_indices \in SortedIndices(similarities, num_to_find) :
             bg' = [bg EXCEPT
                      !.nodes = @ @@ (word :>
                          [edges |-> RowEdges(bg.words, bg.i, similarities, sorted_indices,
                                              bg.k_neighbors),
                           tsne |-> IF missing THEN <<0, 0>> ELSE tsne_coords_map[word]]),
                      !.missing_tsne_count = IF missing THEN @ + 1 ELSE @,
                      !.i = @ + 1,
                      !.pc = IF bg.i = num_words THEN "built" ELSE "rows"]
    /\ UNCHANGED <<pb, graph, scan_order, pf, gen_vars, hs, gs>>

BuildInit ==
    /\ graph = <<>>
    /\ scan_order = <<>>
    /\ pf = NoQuery
    /\ GenIdle
    /\ hs = NoCall
    /\ gs = NoSession
    /\ pb = NoBatch
    /\ \E embeddings_dict \in [RawWords -> Directions], defined \in SUBSET RawWords,
          k_neighbors \in 1..MaxK :
         bg = [NoBuild EXCEPT !.pc = "call", !.embeddings_dict = embeddings_dict,
                              !.defined = defined, !.k_neighbors = k_neighbors]

BuildNext == BuildFilter \/ BuildRow

BuildSpec == BuildInit /\ [][BuildNext]_vars

\* ---------------------------------------------------------------- PathFinder claims
\* Independent definitions used to state the claims.
EdgeCost(g, u, v) == 100 - g[u].edges[v]

IsEdgePath(g, p) ==
    \A i \in 1..Len(p) :
        /\ p[i] \in DOMAIN g
        /\ i < Len(p) => p[i + 1] \in DOMAIN g[p[i]].edges

RECURSIVE PathCostFrom(_, _, _)
PathCostFrom(g, p, i) ==
    IF i >= Len(p) THEN 0 ELSE EdgeCost(g, p[i], p[i + 1]) + PathCostFrom(g, p, i + 1)

PathCost(g, p) == PathCostFrom(g, p, 1)

\* the same sum in double arithmetic, added from the start word on
RECURSIVE FloatPathCostTo(_, _, _)
FloatPathCostTo(g, p, i) ==
    IF i <= 1 THEN FloatZero
    ELSE FloatAdd(FloatPathCostTo(g, p, i - 1), Cost(g[p[i - 1]].edges[p[i]]))

FloatPathCost(g, p) == FloatPathCostTo(g, p, Len(p))

\* every directed path from the end of p to e that repeats no word
RECURSIVE ExtendPaths(_, _, _)
ExtendPaths(g, p, e) ==
    IF Last(p) = e THEN {p}
    ELSE UNION {ExtendPaths(g, Append(p, n), e) :
                    n \in (DOMAIN g[Last(p)].edges) \ Range(p)}

SimplePaths(g, s, e) == IF s \in DOMAIN g THEN ExtendPaths(g, <<s>>, e) ELSE {}

RECURSIVE ReachFrom(_, _)
ReachFrom(g, S) ==
    LET T == S \cup UNION {DOMAIN g[u].edges : u \in S}
    IN  IF T = S THEN S ELSE ReachFrom(g, T)

Reachable(g, s, e) == s \in DOMAIN g /\ e \in ReachFrom(g, {s})

Hops(p) == Len(p) - 1

IsCheapestPath(g, s, e, p) ==
    /\ p[1] = s
    /\ Last(p) = e
    /\ IsEdgePath(g, p)
    /\ \A q \in SimplePaths(g, s, e) :
         /\ PathCost(g, q) >= PathCost(g, p)
         /\ ~FloatLess(FloatPathCost(g, q), FloatPathCost(g, p))

\* C1: every non-empty path returned by find_shortest_path (linear-scan and
\* heap-based) starts at start, ends at end, follows existing directed edges,
\* and no directed path from start to end has a smaller sum of (1 - similarity),
\* neither as an exact sum nor as the sum of doubles the code computes.
C1_ReturnedPathIsCheapest ==
    /\ ("linear" \in pf.ran /\ pf.linear # <<>>)
         => IsCheapestPath(graph, pf.start, pf.end, pf.linear)
    /\ ("heap" \in pf.ran /\ pf.heap # <<>>)
         => IsCheapestPath(graph, pf.start, pf.end, pf.heap)

\* a two-hop answer that beats the dearer direct edge start -> end
C1_Witness ==
    /\ pf.ran = {"linear", "heap"}
    /\ Len(pf.linear) = 3
    /\ Len(pf.heap) = 3
    /\ pf.end \in DOMAIN graph[pf.start].edges
    /\ EdgeCost(graph, pf.start, pf.end) > PathCost(graph, pf.linear)

\* C2: find_shortest_path returns the empty sequence exactly when start or end
\* is not a node of the graph or end is not reachable from start along directed
\* edges; otherwise the path is non-empty.
C2_EmptyIffAbsentOrUnreachable ==
    "linear" \in pf.ran =>
        (pf.linear = <<>> <=>
            \/ pf.start \notin DOMAIN graph
            \/ pf.end \notin DOMAIN graph
            \/ ~Reachable(graph, pf.start, pf.end))

\* both words are nodes, start has edges, and end cannot be reached
C2_Witness ==
    /\ "linear" \in pf.ran
    /\ pf.start \in DOMAIN graph
    /\ pf.end \in DOMAIN graph
    /\ DOMAIN graph[pf.start].edges # {}
    /\ ~Reachable(graph, pf.start, pf.end)
    /\ pf.linear = <<>>

\* C3: for every word a of the graph, find_shortest_path(graph, a, a) = [a],
\* of cost 0, in the linear-scan and in the heap-based implementation,
\* whatever edges a has.
C3_SelfPathIsSingleton ==
    (pf.start = pf.end /\ pf.start \in DOMAIN graph) =>
        /\ "linear" \in pf.ran => (pf.linear = <<pf.start>> /\ PathCost(graph, pf.linear) = 0)
        /\ "heap" \in pf.ran => (pf.heap = <<pf.start>> /\ PathCost(graph, pf.heap) = 0)

\* a word with outgoing and incoming edges asked for the path to itself
C3_Witness ==
    /\ pf.ran = {"linear", "heap"}
    /\ pf.start = pf.end
    /\ pf.start \in DOMAIN graph
    /\ DOMAIN graph[pf.start].edges # {}
    /\ \E u \in DOMAIN graph : pf.start \in DOMAIN graph[u].edges
    /\ pf.linear = <<pf.start>>
    /\ pf.heap = <<pf.start>>

\* ---------------------------------------------------------------- generator claims
Batch == all_pairs

PairsOfLength(pairs, L) == {i \in 1..Len(pairs) : pairs[i].pathLength = L}

\* C4: in the batch returned after all workers finish, no two pairs have the
\* same startWord and no two pairs have the same targetWord, for every
\* interleaving of the workers.
C4_DistinctStartsAndTargets ==
    main_pc = "combined" =>
        \A i, j \in 1..Len(Batch) :
            i # j => /\ Batch[i].startWord # Batch[j].startWord
                     /\ Batch[i].targetWord # Batch[j].targetWord

\* C5: no two pairs of one batch have the same unordered word pair
\* {startWord, targetWord}, across all chunks and workers.
C5_DistinctUnorderedPairs ==
    main_pc = "combined" =>
        \A i, j \in 1..Len(Batch) : i # j => PairKey(Batch[i]) # PairKey(Batch[j])

\* C6: every pair placed in the batch has a pathLength in
\* [MIN_PATH_LENGTH, MAX_PATH_LENGTH] that is one of the lengths with a quota
\* and that is the number of words of the path computed at acceptance, less one.
C6_PairLengthInRange ==
    /\ \A w \in Procs : \A i \in 1..Len(worker[w].chunk_pairs) :
          LET pair == worker[w].chunk_pairs[i] IN
          /\ MIN_PATH_LENGTH <= pair.pathLength
          /\ pair.pathLength <= MAX_PATH_LENGTH
          /\ pair.pathLength \in DOMAIN quota
          /\ worker[w].chunk_paths[i] # <<>>
          /\ pair.pathLength = Len(worker[w].chunk_paths[i]) - 1
    /\ \A i \in 1..Len(Batch) :
          /\ MIN_PATH_LENGTH <= Batch[i].pathLength
          /\ Batch[i].pathLength <= MAX_PATH_LENGTH
          /\ Batch[i].pathLength \in DOMAIN quota

\* a combined batch that holds a four-hop and a five-hop pair
C6_Witness ==
    /\ main_pc = "combined"
    /\ PairsOfLength(Batch, 4) # {}
    /\ PairsOfLength(Batch, 5) # {}

\* C7: for every emitted pair, a later independent run of the PathFinder on the
\* same graph returns a path whose hop count is the stored pathLength, whatever
\* order breaks the ties among equal-cost alternatives.
C7_RecomputedLengthMatches ==
    recheck # NoCheck => recheck.recalculated_length = recheck.pair.pathLength

\* C8: every generate_chunk call eventually returns, for every graph and quota
\* configuration: a pool process that is inside generate_chunk is later out of it.
C8_EveryChunkReturns ==
    \A w \in Procs : (worker[w].pc # "idle") ~> (worker[w].pc = "idle")

\* C9: when generation completes, the batch holds exactly
\* PAIRS_PER_PATH_LENGTH[L] pairs of every target length L, for every
\* interleaving of the workers.
C9_ExactQuota ==
    main_pc = "combined" =>
        \A L \in TARGET_PATH_LENGTHS : Cardinality(PairsOfLength(Batch, L)) = quota[L]

\* ---------------------------------------------------------------- solver claims
OptimalLength == Hops(SolverShortestPath(graph, hs.start_word, hs.target_word))

SingleAttemptDone ==
    /\ hs.pc = "done"
    /\ hs.max_retries = 1
    /\ hs.max_steps >= 1
    /\ Reachable(graph, hs.start_word, hs.target_word)

\* C10 as stated: with max_retries = 1 (avoid-optimal never active), for every
\* reachable (start, target) solve_puzzle returns solved with a step count equal
\* to the optimal path length of find_shortest_path, whatever the random draws.
C10_SingleAttemptIsOptimal ==
    SingleAttemptDone =>
        /\ hs.result.status = "solved"
        /\ hs.result.steps = OptimalLength

\* C10 amended: with max_retries = 1 and max_steps >= 1, whenever the optimal
\* path of find_shortest_path has at most one hop (start = target, or the edge
\* start -> target is the cheapest path), solve_puzzle returns solved with a
\* step count equal to the optimal length, whatever the random draws.
C10_DirectOptimalIsFound ==
    (SingleAttemptDone /\ OptimalLength <= 1) =>
        /\ hs.result.status = "solved"
        /\ hs.result.steps = OptimalLength

\* the target taken at once from a start word that has other neighbors too
C10_Witness ==
    /\ SingleAttemptDone
    /\ OptimalLength = 1
    /\ Cardinality(DOMAIN graph[hs.start_word].edges) > 1
    /\ hs.result.status = "solved"
    /\ hs.result.path = <<hs.start_word, hs.target_word>>

\* a result that solve_puzzle returned from one of its attempts
ReturnedFromAttempt == hs.pc = "done" /\ hs.attempts # <<>>

\* the attempt that produced the returned result is not the final one
EarlyReturn == ReturnedFromAttempt /\ Len(hs.attempts) < hs.max_retries

\* C11: a solved result produced by an attempt that is not the final one is
\* returned only if its step count is at least optimal_length + 2; a solved
\* attempt of optimal_length or optimal_length + 1 steps is returned only when
\* it is the final attempt.
C11_EarlyAcceptNeedsTwoExtraSteps ==
    /\ (EarlyReturn /\ hs.result.status = "solved") =>
           hs.result.steps >= hs.optimal_length + 2
    /\ (ReturnedFromAttempt /\ hs.result.status = "solved"
          /\ hs.result.steps <= hs.optimal_length + 1) =>
           Len(hs.attempts) = hs.max_retries

\* the first of two attempts wandered for two extra steps and was returned
C11_Witness ==
    /\ EarlyReturn
    /\ hs.result.status = "solved"
    /\ hs.optimal_length >= 2
    /\ hs.result.steps >= hs.optimal_length + 2

\* C12: in every result returned by solve_puzzle, solved or failed, each
\* consecutive pair of words of the path is joined by an edge of the graph,
\* the steps added by the anti-cycle hub escape included.
C12_ResultPathFollowsEdges ==
    hs.pc = "done" =>
        \A i \in 1..(Len(hs.result.path) - 1) :
            /\ IsNode(graph, hs.result.path[i])
            /\ hs.result.path[i + 1] \in DOMAIN graph[hs.result.path[i]].edges

\* ---------------------------------------------------------------- session claims
\* the step is a backtrack: one event more in backtrack_history
BacktrackStep == Len(gs'.backtrack_history) = Len(gs.backtrack_history) + 1

\* the backtrack of this step went to the checkpoint at position c of the list
WentTo(c) ==
    /\ Last(gs'.backtrack_history).to = gs.checkpoints[c].word
    /\ Len(gs'.path_so_far) = gs.checkpoints[c].index + 1
    /\ Last(gs'.path_so_far) = gs.checkpoints[c].word

\* C13: a backtrack to the checkpoint with index i leaves path_so_far with
\* exactly i + 1 words whose last word is the checkpoint's word, sets the used
\* flag of that checkpoint, and changes no other checkpoint of the list.
C13_BacktrackEffect ==
    [][BacktrackStep =>
          \E c \in 1..Len(gs.checkpoints) :
              /\ WentTo(c)
              /\ gs'.current_word = gs.checkpoints[c].word
              /\ ~gs.checkpoints[c].used
              /\ gs'.checkpoints = [gs.checkpoints EXCEPT ![c].used = TRUE]]_vars

\* after a backtrack the path ends at a used checkpoint and the list holds
\* other checkpoints, used and unused
C13_Witness ==
    /\ gs.pc = "turn"
    /\ gs.backtrack_attempts >= 2
    /\ gs.retry_count = 0
    /\ \E c \in 1..Len(gs.checkpoints) :
           /\ gs.checkpoints[c].used
           /\ Len(gs.path_so_far) = gs.checkpoints[c].index + 1
           /\ Last(gs.path_so_far) = gs.checkpoints[c].word
    /\ \E c \in 1..Len(gs.checkpoints) : ~gs.checkpoints[c].used

\* C14: in every reachable state of a session the backtrack counter is at most
\* the session maximum (3) and equals the number of events in backtrack_history.
C14_BacktrackCounter ==
    /\ gs.backtrack_attempts <= MAX_BACKTRACKS
    /\ gs.backtrack_attempts = Len(gs.backtrack_history)

\* the maximum is reached while an unused checkpoint is still on offer
C14_Witness ==
    /\ gs.backtrack_attempts = MAX_BACKTRACKS
    /\ gs.retry_count >= MAX_RETRIES_PER_MOVE
    /\ get_available_backtrack_options(gs) # <<>>

\* C15: checkpoints are single-use: the checkpoint a backtrack goes to was
\* unused until then, a used checkpoint stays used, and it is never among the
\* options get_available_backtrack_options returns.
C15_CheckpointsSingleUse ==
    [][/\ \A c \in 1..Len(gs.checkpoints) :
              gs.checkpoints[c].used =>
                  /\ c <= Len(gs'.checkpoints)
                  /\ gs'.checkpoints[c] = gs.checkpoints[c]
                  /\ gs'.checkpoints[c] \notin Range(get_available_backtrack_options(gs'))
       /\ BacktrackStep =>
              \E c \in 1..Len(gs.checkpoints) :
                  /\ WentTo(c)
                  /\ ~gs.checkpoints[c].used
                  /\ gs.checkpoints[c] \in Range(get_available_backtrack_options(gs))]_vars

\* two checkpoints were used and a third one is on offer
C15_Witness ==
    /\ gs.pc = "turn"
    /\ Cardinality({c \in 1..Len(gs.checkpoints) : gs.checkpoints[c].used}) >= 2
    /\ get_available_backtrack_options(gs) # <<>>
    /\ gs.steps_taken > 0

\* C16: if the proposer answers every request, every session reaches a
\* terminal state, solved or failed, after finitely many proposals, whatever
\* the moves proposed.
\* Remaining orders the session's states by the backtracks, the steps and the
\* retries that are left, in this order of weight; it is 0 in a terminal
\* state.  Every step of a session, a request and its answer included, lowers
\* it, so that a session that starts its first turn sends at most
\* Remaining / 2 requests before it ends.
Remaining(state) ==
    IF state.pc = "done" THEN 0
    ELSE IF state.pc # "turn"
    THEN 2 + 2 * (MAX_RETRIES_PER_MOVE + 1) * (MAX_STEPS_PER_PUZZLE + 1) * (MAX_BACKTRACKS + 1)
    ELSE 1 + (IF state.awaiting THEN 0 ELSE 1)
         + 2 * ((MAX_RETRIES_PER_MOVE - state.retry_count)
                + (MAX_RETRIES_PER_MOVE + 1)
                  * ((MAX_STEPS_PER_PUZZLE - state.steps_taken)
                     + (MAX_STEPS_PER_PUZZLE + 1)
                       * (MAX_BACKTRACKS - state.backtrack_attempts)))

C16_SessionTerminates ==
    [][Remaining(gs') >= 0 /\ Remaining(gs') < Remaining(gs)]_vars

\* a session that ended after the last backtrack allowed and a full path
C16_Witness ==
    /\ gs.pc = "done"
    /\ gs.failed
    /\ gs.backtrack_attempts = MAX_BACKTRACKS
    /\ gs.steps_taken >= MAX_STEPS_PER_PUZZLE

\* C17: every accepted move is a neighbor of the current word when it is
\* accepted, so in every reachable state each consecutive pair of words of
\* path_so_far is joined by an edge of the graph, also after backtracks.
C17_PathFollowsEdges ==
    \A i \in 1..(Len(gs.path_so_far) - 1) :
        /\ IsNode(graph, gs.path_so_far[i])
        /\ gs.path_so_far[i + 1] \in DOMAIN graph[gs.path_so_far[i]].edges

\* ---------------------------------------------------------------- build_graph claims
\* the graph that a finished run wrote
Built == bg.pc = "built"

BuiltWords == DOMAIN bg.nodes

EdgesOf(w) == bg.nodes[w].edges

NeighborsOf(w) == {EdgesOf(w)[n][1] : n \in 1..Len(EdgesOf(w))}

\* the similarity of two words, from their embeddings
SimilarityOf(w, v) == Cosine(bg.embeddings_dict[w], bg.embeddings_dict[v])

\* C18: for every word w of a built graph with K >= 1, w has at most K edges,
\* w is not among its own neighbors, and every neighbor is a node of the graph.
C18_EdgesBoundedNoSelfClosed ==
    (Built /\ bg.k_neighbors >= 1) =>
        \A w \in BuiltWords :
            /\ Len(EdgesOf(w)) <= bg.k_neighbors
            /\ Cardinality(NeighborsOf(w)) = Len(EdgesOf(w))
            /\ w \notin NeighborsOf(w)
            /\ NeighborsOf(w) \subseteq BuiltWords

\* every word has a definition and all embeddings have one direction, with
\* K = 1: each word is as similar to the others as to itself
C18_Witness ==
    /\ Built
    /\ bg.k_neighbors = 1
    /\ Cardinality(BuiltWords) = MaxWords
    /\ \A w \in BuiltWords, v \in BuiltWords : SimilarityOf(w, v) = 100
    /\ \A w \in BuiltWords : Len(EdgesOf(w)) = 1

\* C19 as stated: the edges of every word, in insertion order, have strictly
\* decreasing similarity, also when several words are equally similar to it.
C19_StrictlyDescending ==
    Built =>
        \A w \in BuiltWords :
            \A n \in 1..(Len(EdgesOf(w)) - 1) : EdgesOf(w)[n][2] > EdgesOf(w)[n + 1][2]

\* C19 amended: the edges of every word, in insertion order, have a similarity
\* that never increases, and each score is the similarity of the two words;
\* neighbors that are equally similar to the word carry equal scores.
C19_NeverAscending ==
    Built =>
        \A w \in BuiltWords :
            /\ \A n \in 1..Len(EdgesOf(w)) :
                   EdgesOf(w)[n][2] = SimilarityOf(w, EdgesOf(w)[n][1])
            /\ \A n \in 1..(Len(EdgesOf(w)) - 1) :
                   EdgesOf(w)[n][2] >= EdgesOf(w)[n + 1][2]

\* a word with a more similar neighbor first and two equally similar ones
\* after it, or with two edges of different similarity
C19_Witness ==
    /\ Built
    /\ \E w \in BuiltWords :
           /\ Len(EdgesOf(w)) >= 2
           /\ EdgesOf(w)[1][2] > EdgesOf(w)[2][2]
    /\ \E w \in BuiltWords :
           /\ Len(EdgesOf(w)) >= 2
           /\ EdgesOf(w)[1][2] = EdgesOf(w)[2][2]

\* C20: the neighbors of every word w are K of the most similar other words:
\* no other word outside edges(w) is strictly more similar to w than some
\* neighbor, and |edges(w)| = min(K, vocabulary size - 1).
C20_TopKNeighbors ==
    Built =>
        \A w \in BuiltWords :
            /\ Len(EdgesOf(w)) = Min(bg.k_neighbors, Cardinality(BuiltWords) - 1)
            /\ \A v \in BuiltWords \ (NeighborsOf(w) \cup {w}) :
                   \A u \in NeighborsOf(w) : SimilarityOf(w, v) <= SimilarityOf(w, u)

\* K is smaller than the number of other words, and a word that is left out
\* is strictly less similar than the neighbor that was taken
C20_Witness ==
    /\ Built
    /\ bg.k_neighbors < Cardinality(BuiltWords) - 1
    /\ \E w \in BuiltWords :
           \E v \in BuiltWords \ (NeighborsOf(w) \cup {w}) :
               \E u \in NeighborsOf(w) : SimilarityOf(w, v) < SimilarityOf(w, u)

\* ---------------------------------------------------------------- solver claims, continued
\* some attempt of the call reached the target
SomeAttemptSolved == \E i \in 1..Len(hs.attempts) : hs.attempts[i].status = "solved"

\* C22: when solve_puzzle returns after its attempts and any of them reached
\* the target, the returned status is solved, even when the final attempt
\* itself failed (the best result across all attempts is returned).
C22_BestResultReturned ==
    (ReturnedFromAttempt /\ SomeAttemptSolved) => hs.result.status = "solved"

\* C23: every result of a single heuristic attempt has steps <= max_steps,
\* the iterations in which the anti-cycle escape adds a second move included.
C23_StepsWithinBudget ==
    \A i \in 1..Len(hs.attempts) : hs.attempts[i].steps <= hs.max_steps

\* the categories of the reason of a failed attempt: the reason as the attempt
\* gave it, or the same with the words solve_puzzle adds after the last attempt
FailureReasons ==
    LET given == {"No neighbors available", "No valid neighbors after filtering",
                  ExceededMaxSteps(hs.max_steps)}
    IN  given \cup {r \o FailedAfter(hs.max_retries) : r \in given}

\* solve_puzzle was called with both words in the graph and different
ProperCall ==
    /\ IsNode(graph, hs.start_word) /\ IsNode(graph, hs.target_word)
    /\ hs.start_word # hs.target_word

\* C24: for start and target both in the graph and different, every result of
\* solve_puzzle has path[0] = start and steps = len(path) - 1, is solved iff
\* the last word of its path is the target, and when failed gives as reason
\* no neighbors, no neighbors after filtering or step budget exceeded.
C24_ResultWellFormed ==
    (hs.pc = "done" /\ ProperCall) =>
        /\ hs.result.path # <<>>
        /\ hs.result.path[1] = hs.start_word
        /\ hs.result.steps = Len(hs.result.path) - 1
        /\ hs.result.status \in {"solved", "failed"}
        /\ hs.result.status = "solved" <=> Last(hs.result.path) = hs.target_word
        /\ hs.result.status = "failed" => hs.result.reason \in FailureReasons

\* the last of two attempts walked into a word without neighbors and failed
\* there, after an attempt that was solved and rejected
C24_Witness ==
    /\ hs.pc = "done" /\ ProperCall
    /\ Len(hs.attempts) = 2
    /\ hs.attempts[1].status = "solved"
    /\ hs.result.status = "failed"
    /\ hs.result.steps >= 1
    /\ hs.result.reason = "No neighbors available" \o FailedAfter(2)

\* the loop of the running attempt is about to make a move from a word whose
\* neighbors include the target
TargetIsDirect ==
    /\ hs.pc = "attempt"
    /\ hs.steps < hs.max_steps /\ hs.current_word # hs.target_word
    /\ hs.target_word \in Range(get_word_neighbors(graph, hs.current_word))

\* the attempt that was running has ended solved by one more move, the move
\* to the target
TookTarget ==
    /\ Len(hs'.attempts) = Len(hs.attempts) + 1
    /\ Last(hs'.attempts).status = "solved"
    /\ Last(hs'.attempts).steps = hs.steps + 1
    /\ hs'.pc = "done" => hs'.result.path = Append(hs.path, hs.target_word)

\* C25: on the first attempt of solve_puzzle, whenever the target is a direct
\* neighbor of the current word the very next move is the target and the
\* attempt ends solved; the direct move is suppressed only from the second
\* attempt onward.
C25_FirstAttemptTakesTarget ==
    [][(TargetIsDirect /\ ~TookTarget) => hs.attempt >= 1]_vars

\* the first attempt took the direct move from the start word and was
\* rejected; the second attempt, from the same word, has moved elsewhere
C25_Witness ==
    /\ hs.pc = "attempt" /\ hs.attempt = 1
    /\ hs.attempts[1].status = "solved"
    /\ hs.attempts[1].steps = 1
    /\ hs.steps >= 1

\* C26: in avoid-optimal mode, whenever taking the direct move to an adjacent
\* target would give a solution at least 2 steps longer than optimal, the
\* target is taken immediately; the move is suppressed only while the step
\* count it would give is within one step of the optimal length.
C26_SuppressedOnlyNearOptimal ==
    [][(TargetIsDirect /\ avoid_optimal(hs.attempt)
          /\ hs.steps + 1 >= hs.optimal_length + 2) => TookTarget]_vars

\* a step of the solver after which the attempt goes on
AttemptGoesOn == hs.pc = "attempt" /\ hs'.pc = "attempt" /\ hs'.attempt = hs.attempt

\* the hub-word neighbors of the last word of p that are not among the last 3
\* entries of p
HubEscapes(p) ==
    {n \in Range(get_word_neighbors(graph, Last(p))) :
        n \in hub_words(graph) /\ n \notin LastWords(p, 3)}

\* after the entry p[Len(p)] the path goes on with a hub-word escape whenever
\* the last 5 entries of p hold at most 2 distinct words and an escape exists
EscapesFrom(p, next_entry) ==
    (Cardinality(LastWords(p, 5)) <= 2 /\ HubEscapes(p) # {}) =>
        next_entry \in HubEscapes(p)

\* C27: in a heuristic attempt, whenever the last 5 path entries contain at
\* most 2 distinct words and the current word has a hub-word neighbor that is
\* not among the last 3 path entries, the next path entry is such a hub-word
\* neighbor of the current word, at any path length.
C27_EscapeAtAnyLength ==
    [][AttemptGoesOn =>
          \A k \in Len(hs.path)..(Len(hs'.path) - 1) :
              EscapesFrom(SubSeq(hs'.path, 1, k), hs'.path[k + 1])]_vars

\* ---------------------------------------------------------------- generation claims, continued
\* process w has appended a pair to chunk_pairs and has not yet finished
\* needed_pairs[path_length] -= 1 for it
Publishing(w) == worker[w].pc \in {"use_start", "use_target", "read_count", "write_count"}

\* the pairs of length L that process w has accepted in the chunk it is running
\* and has counted in needed_pairs
AcceptedBy(w, L) ==
    Cardinality(PairsOfLength(worker[w].chunk_pairs, L))
        - (IF Publishing(w) /\ worker[w].pair_info.pathLength = L THEN 1 ELSE 0)

\* the pairs of length L accepted so far: those of the chunks that have
\* returned and those of the chunks that are running
Accepted(L) ==
    SumOver([c \in DOMAIN chunk_results |-> Cardinality(PairsOfLength(chunk_results[c], L))],
            DOMAIN chunk_results)
        + SumOver([w \in Procs |-> AcceptedBy(w, L)], Procs)

\* C28: at every point of generation and for every target length L,
\* needed_pairs[L] is never negative, and needed_pairs[L] plus the number of
\* pairs of length L accepted so far by all workers equals the configured
\* quota, for every interleaving of the workers' read-check-decrement steps.
C28_QuotaConserved ==
    \A L \in TARGET_PATH_LENGTHS :
        /\ needed_pairs[L] >= 0
        /\ needed_pairs[L] + Accepted(L) = quota[L]

\* ---------------------------------------------------------------- session claims, continued
\* a step of the session that accepts a move: the path grows by one word
MoveAccepted == gs.pc = "turn" /\ Len(gs'.path_so_far) = Len(gs.path_so_far) + 1

\* C29: a proposed move that was rejected earlier in the same turn is never
\* accepted later in that turn, and the list of rejected moves is empty at
\* the start of every turn that follows an accepted move or a backtrack.
C29_RejectedStaysRejected ==
    [][/\ MoveAccepted =>
              normalize_word(Last(gs'.path_so_far)) \notin Range(gs.invalid_moves)
       /\ ((MoveAccepted \/ BacktrackStep) /\ gs'.pc = "turn") =>
              (gs'.invalid_moves = <<>> /\ gs'.retry_count = 0)]_vars

\* in a turn that follows a backtrack a move has been rejected, and the
\* proposer is asked again
C29_Witness ==
    /\ gs.pc = "turn" /\ gs.awaiting
    /\ gs.invalid_moves # <<>>
    /\ gs.retry_count >= 1
    /\ gs.backtrack_attempts >= 1
    /\ Len(gs.path_so_far) >= 2

\* ---------------------------------------------------------------- sessions on a graph with a loop
LoopPairs == {<<2, 4>>, <<1, 4>>}

LoopSessionInit ==
    /\ graph = LoopGraph
    /\ scan_order \in GenOrders(graph)
    /\ pf = NoQuery
    /\ GenIdle
    /\ hs = NoCall
    /\ bg = NoBuild
    /\ pb = NoBatch
    /\ \E pair \in LoopPairs :
         gs = [NoSession EXCEPT !.pc = "call", !.start_word = pair[1],
                                !.end_word = pair[2]]

LoopSessionSpec == LoopSessionInit /\ [][SessionNext]_vars

\* the last L words of p occur at least twice earlier in p as a contiguous
\* subsequence, for one length L in 2..6
RepeatsTwice(p) ==
    \E L \in 2..6 :
        /\ L < Len(p)
        /\ Cardinality({i \in 1..(Len(p) - L) :
                           SubSeq(p, i, i + L - 1) = SubSeq(p, Len(p) - L + 1, Len(p))}) >= 2

\* the word m (normalized) is a neighbor of the current word other than the
\* target and lies on neither the optimal nor the suggested path
OffPathNeighbor(m) ==
    /\ m \in Range(Normalized(gs.neighbors))
    /\ m # normalize_word(gs.target_word)
    /\ m \notin Range(Normalized(gs.optimal_path))
    /\ m \notin Range(Normalized(gs.suggested_path))

\* a step of the session that rejects a move and remembers it
MoveRejected == gs.pc = "turn" /\ Len(gs'.invalid_moves) = Len(gs.invalid_moves) + 1

\* C30: a proposed non-target neighbor move that lies on neither the original
\* optimal path nor the current suggested path is rejected by the cycle rule
\* if and only if, for some single length L in 2..6, the last L words of
\* (path + move) already occur at least twice earlier in the path;
\* occurrences of sequences of different lengths are not added together.
C30_CycleRuleSingleLength ==
    [][/\ (MoveRejected /\ OffPathNeighbor(Last(gs'.invalid_moves))) =>
              RepeatsTwice(Append(Normalized(gs.path_so_far), Last(gs'.invalid_moves)))
       /\ (MoveAccepted /\ OffPathNeighbor(normalize_word(Last(gs'.path_so_far)))) =>
              ~RepeatsTwice(Normalized(gs'.path_so_far))]_vars


\* ---------------------------------------------------------------- process_batch
\* test_daily_pairs_llm.py: main() hands the daily challenges to process_batch
\* a batch at a time.  The words 1..6 are the words of ChainGraph, OtherWord
\* is a word the graph does not have, and None stands for a challenge without
\* the field.
BATCH_SIZE == 2         \* 60 in the source
MaxChallenges == 2      \* challenges in daily_challenges
OtherWord == 7

\* main(): daily_challenges = [c for c in daily_challenges if c['pathLength'] == 6]
PlayedPathLength == 3   \* 6 in the source

\* The challenges were generated on an earlier graph: on this one the words
\* of a challenge may be closer than its pathLength says (1 and 3), or gone.
\* The target 4 is a neighbor of every word on the way from 1; the target 3
\* is a neighbor of 6 and of 4 and not of 5.
ChallengeShapes ==
    {[startWord |-> e[1], targetWord |-> e[2], pathLength |-> PlayedPathLength] :
        e \in {<<1, 4>>, <<6, 3>>, <<1, 3>>, <<None, 4>>, <<1, None>>, <<OtherWord, 4>>}}

\* daily_challenges: every challenge has an id of its own
ChallengeLists ==
    UNION {{[k \in 1..n |-> [id |-> k, startWord |-> f[k].startWord,
                             targetWord |-> f[k].targetWord,
                             pathLength |-> f[k].pathLength]] :
                f \in [1..n -> ChallengeShapes]} : n \in 1..MaxChallenges}

FoundPath(moves) == "Found path in " \o ToString(moves) \o " moves"

\* the dictionary of a challenge that was skipped
BatchRecord(challenge_id, status, reason) ==
    [id |-> challenge_id, status |-> status, reason |-> reason]

\* main(): start_idx is moved past the solved challenges before the call;
\* end_idx = min(start_idx + batch_size, len(challenges))
BatchInit ==
    /\ graph = ChainGraph
    /\ scan_order \in GenOrders(graph)
    /\ pf = NoQuery
    /\ GenIdle
    /\ hs = NoCall
    /\ gs = NoSession
    /\ bg = NoBuild
    /\ \E challenges \in ChallengeLists, start_idx \in 0..(MaxChallenges - 1) :
        \E solved_challenges \in SUBSET (1..Len(challenges)) :
            /\ start_idx < Len(challenges)
            /\ challenges[start_idx + 1].id \notin solved_challenges
            /\ pb = [NoBatch EXCEPT !.pc = "loop", !.challenges = challenges,
                                    !.solved_challenges = solved_challenges,
                                    !.start_idx = start_idx,
                                    !.end_idx = IF start_idx + BATCH_SIZE < Len(challenges)
                                                THEN start_idx + BATCH_SIZE
                                                ELSE Len(challenges),
                                    !.i = start_idx]

\* challenge = challenges[i]
Challenge == pb.challenges[pb.i + 1]

InBatch == pb.pc = "loop" /\ pb.i < pb.end_idx

\* find_shortest_path(graph_nodes, start_word, end_word) of process_batch
OptimalPath(challenge) ==
    IF ~IsNode(graph, challenge.startWord) \/ ~IsNode(graph, challenge.targetWord) THEN <<>>
    ELSE ShortestPath(graph, challenge.startWord, challenge.targetWord, scan_order)

\* recalculated_length = len(optimal_path) - 1 if optimal_path else float('inf')
RecalculatedLength(challenge) ==
    IF OptimalPath(challenge) # <<>> THEN Len(OptimalPath(challenge)) - 1 ELSE Infinity

\* if challenge_id in solved_challenges: ... continue
SkipSolved ==
    /\ InBatch
    /\ Challenge.id \in pb.solved_challenges
    /\ pb' = [pb EXCEPT !.batch_results =
                            Append(@, BatchRecord(Challenge.id, "skipped", "Already solved")),
                        !.batch_skipped = @ + 1, !.i = @ + 1]
    /\ UNCHANGED <<graph, scan_order, pf, gen_vars, hs, gs, bg>>

\* if not start_word or not end_word: ... continue
SkipMissing ==
    /\ InBatch
    /\ Challenge.id \notin pb.solved_challenges
    /\ Challenge.startWord = None \/ Challenge.targetWord = None
    /\ pb' = [pb EXCEPT !.batch_results =
                            Append(@, BatchRecord(Challenge.id, "skipped", "Missing start or end word")),
                        !.batch_skipped = @ + 1, !.i = @ + 1]
    /\ UNCHANGED <<graph, scan_order, pf, gen_vars, hs, gs, bg>>

Playable ==
    /\ InBatch
    /\ Challenge.id \notin pb.solved_challenges
    /\ Challenge.startWord # None /\ Challenge.targetWord # None

\* assert recalculated_length == original_path_len: the AssertionError is
\* raised outside every try block of process_batch, and main() calls
\* process_batch outside any try block, so the run ends here and the
\* records of the batch are not returned.
AssertFails ==
    /\ Playable
    /\ RecalculatedLength(Challenge) # Challenge.pathLength
    /\ pb' = [pb EXCEPT !.pc = "raised"]
    /\ UNCHANGED <<graph, scan_order, pf, gen_vars, hs, gs, bg>>

\* challenge_result, the dictionary of a challenge that was played (the
\* "model" entry, the same text in every record, is left out)
ChallengeResult(challenge, state) ==
    [id |-> challenge.id, startWord |-> challenge.startWord,
     endWord |-> challenge.targetWord, optimalPathLength |-> challenge.pathLength,
     llmPath |-> state.path_so_far, stepsTaken |-> Len(state.path_so_far) - 1,
     status |-> IF state.solved THEN "solved" ELSE "failed",
     reason |-> IF state.solved THEN FoundPath(Len(state.path_so_far) - 1)
                ELSE "Invalid move or exceeded step limit",
     backtrackAttempts |-> state.backtrack_attempts]

\* ---------------------------------------------------------------- the game of a challenge
\* process_batch plays a challenge turn by turn: in a turn the language model
\* is asked for a move until it names a valid one or the retries of the turn
\* are used up.  pb.game holds the GameState of the challenge and the locals
\* of the loop; invalid_moves is only appended to and searched, and is kept
\* as the set of its entries; prev_moves_left and path_suggested_moves only
\* feed the prompt and are left out.
LLM_MAX_RETRIES == 2            \* max_retries = 5 in the source
LLM_MAX_STEPS == 3              \* "current_state.steps_taken >= 30" in the source
max_backtrack_attempts == 1     \* max_backtrack_attempts = 3 in the source

\* the replies of the language model: the words of the graph in either letter
\* case, and a word the graph does not have
Replies == DOMAIN ChainGraph \cup {OtherWord} \cup {w + Upper : w \in DOMAIN ChainGraph}

\* find_last_optimal_word: the last index of path_so_far whose word is on the
\* optimal path or on the suggested path; None is written -1
find_last_optimal_word(path_so_far, optimal_path, suggested_path) ==
    LET found == {i \in 0..(Len(path_so_far) - 1) :
                     path_so_far[i + 1] \in Range(optimal_path) \cup Range(suggested_path)}
    IN  IF found = {} THEN -1 ELSE CHOOSE i \in found : \A j \in found : j <= i

\* current_state = GameState(...), solved = False, failed = False,
\* backtrack_attempts = 0
NewGame(challenge) ==
    [current_word |-> challenge.startWord, target_word |-> challenge.targetWord,
     path_so_far |-> <<challenge.startWord>>,
     neighbors |-> ab_get_word_neighbors(graph, challenge.startWord),
     steps_taken |-> 0, optimal_path |-> OptimalPath(challenge),
     suggested_path |-> OptimalPath(challenge), invalid_moves |-> {},
     retry_count |-> 0, backtrack_attempts |-> 0, solved |-> FALSE, failed |-> FALSE]

\* the assertion holds and the game of the challenge begins
GameBegin ==
    /\ Playable
    /\ RecalculatedLength(Challenge) = Challenge.pathLength
    /\ pb' = [pb EXCEPT !.pc = "game", !.game = NewGame(Challenge)]
    /\ UNCHANGED <<graph, scan_order, pf, gen_vars, hs, gs, bg>>

\* "retry_count += 1; continue" after a reply that was rejected before, a
\* refusal or an exception of the request
llm_Retry(state) == [state EXCEPT !.retry_count = @ + 1]

\* "current_state.invalid_moves.append(next_word_normalized); retry_count += 1"
llm_Reject(state, next_word_normalized) ==
    [state EXCEPT !.invalid_moves = @ \cup {next_word_normalized},
                  !.retry_count = @ + 1]

\* "Update game state for valid moves", the break, and the test of the step
\* limit that follows it; the next turn starts with retry_count = 0
llm_Accept(state, actual_word) ==
    [state EXCEPT
        !.path_so_far = Append(@, actual_word),
        !.current_word = actual_word,
        !.steps_taken = @ + 1,
        !.neighbors = ab_get_word_neighbors(graph, actual_word),
        !.suggested_path = ShortestPath(graph, actual_word, state.target_word, scan_order),
        !.retry_count = 0,
        !.failed = state.steps_taken + 1 >= LLM_MAX_STEPS]

\* "Validate move": the body of the retry loop for one parsed reply.  A reply
\* that names the target next to the current word ends the game, "solved =
\* True; break": the path and the steps are left as they are.
llm_Validate(state, next_word) ==
    LET next_word_normalized == normalize_word(next_word)
        neighbors_normalized == Normalized(state.neighbors)
        reaches_target == /\ next_word_normalized = normalize_word(state.target_word)
                          /\ next_word_normalized \in Range(neighbors_normalized)
    IN  IF next_word_normalized \in state.invalid_moves
        THEN IF reaches_target THEN [state EXCEPT !.solved = TRUE] ELSE llm_Retry(state)
        ELSE IF next_word_normalized = normalize_word(state.target_word)
        THEN IF reaches_target THEN [state EXCEPT !.solved = TRUE]
             ELSE llm_Reject(state, next_word_normalized)
        ELSE IF next_word_normalized \in Range(neighbors_normalized)
        THEN LET first == CHOOSE i \in 1..Len(state.neighbors) :
                              /\ neighbors_normalized[i] = next_word_normalized
                              /\ \A j \in 1..(i - 1) :
                                     neighbors_normalized[j] # next_word_normalized
                 actual_word == state.neighbors[first]
                 path_normalized == Append(Normalized(state.path_so_far),
                                           next_word_normalized)
                 is_optimal == next_word_normalized
                                   \in Range(Normalized(state.optimal_path))
                 is_suggested == next_word_normalized
                                     \in Range(Normalized(state.suggested_path))
             IN  IF cycle_detected(path_normalized) /\ ~(is_optimal \/ is_suggested)
                 THEN llm_Reject(state, next_word_normalized)
                 ELSE llm_Accept(state, actual_word)
        ELSE llm_Reject(state, next_word_normalized)

\* "if not next_word or retry_count >= max_retries": the game goes back to
\* the word find_last_optimal_word names when that is not the start word and
\* a backtrack is left, and is failed otherwise
llm_AfterRetries(state) ==
    IF state.solved \/ state.failed \/ state.retry_count < LLM_MAX_RETRIES THEN state
    ELSE LET last_optimal_idx == find_last_optimal_word(state.path_so_far,
                                                        state.optimal_path,
                                                        state.suggested_path)
             backtrack_word == state.path_so_far[last_optimal_idx + 1]
         IN  IF state.backtrack_attempts < max_backtrack_attempts
                /\ last_optimal_idx # -1 /\ last_optimal_idx > 0
             THEN [state EXCEPT
                      !.backtrack_attempts = @ + 1,
                      !.path_so_far = SubSeq(@, 1, last_optimal_idx + 1),
                      !.current_word = backtrack_word,
                      !.steps_taken = last_optimal_idx,
                      !.neighbors = ab_get_word_neighbors(graph, backtrack_word),
                      !.suggested_path = ShortestPath(graph, backtrack_word,
                                                      state.target_word, scan_order),
                      !.invalid_moves = {},
                      !.retry_count = 0]
             ELSE [state EXCEPT !.failed = TRUE]

\* the game goes on, or it is over: "batch_results.append(challenge_result)",
\* the counters, and the loop goes to the next challenge
GameStep(state) ==
    IF state.solved \/ state.failed
    THEN [pb EXCEPT !.pc = "loop", !.game = NoGame,
                    !.batch_results = Append(@, ChallengeResult(Challenge, state)),
                    !.batch_solved = IF state.solved THEN @ + 1 ELSE @,
                    !.batch_failed = IF state.solved THEN @ ELSE @ + 1,
                    !.i = @ + 1]
    ELSE [pb EXCEPT !.game = state]

\* one request of a turn that the language model answers with a move
GameReply(next_word) ==
    /\ pb.pc = "game"
    /\ pb' = GameStep(llm_AfterRetries(llm_Validate(pb.game, next_word)))
    /\ UNCHANGED <<graph, scan_order, pf, gen_vars, hs, gs, bg>>

\* one request of a turn that gives no move: the language model refuses, or
\* the request raises
GameNoReply ==
    /\ pb.pc = "game"
    /\ pb' = GameStep(llm_AfterRetries(llm_Retry(pb.game)))
    /\ UNCHANGED <<graph, scan_order, pf, gen_vars, hs, gs, bg>>

\* return batch_results, batch_solved, batch_failed, batch_skipped
BatchReturn ==
    /\ pb.pc = "loop"
    /\ pb.i >= pb.end_idx
    /\ pb' = [pb EXCEPT !.pc = "returned"]
    /\ UNCHANGED <<graph, scan_order, pf, gen_vars, hs, gs, bg>>

BatchNext ==
    \/ SkipSolved
    \/ SkipMissing
    \/ AssertFails
    \/ GameBegin
    \/ \E next_word \in Replies : GameReply(next_word)
    \/ GameNoReply
    \/ BatchReturn

BatchSpec == BatchInit /\ [][BatchNext]_vars

\* ---------------------------------------------------------------- batch claims
\* what process_batch holds for the challenge at index k of the batch
RecordOf(k) == pb.batch_results[k - pb.start_idx + 1]

\* C21: a failure on one puzzle (a stored pathLength that differs from the
\* recomputed length, a word the graph does not have) gives that puzzle a
\* failed or skipped record and the batch goes on: the call never ends by an
\* exception, and when it has ended every challenge of the batch has its
\* record.
C21_BatchIsolated ==
    /\ pb.pc # "raised"
    /\ pb.pc = "returned" =>
        /\ Len(pb.batch_results) = pb.end_idx - pb.start_idx
        /\ \A k \in pb.start_idx..(pb.end_idx - 1) :
            /\ RecordOf(k).id = pb.challenges[k + 1].id
            /\ RecordOf(k).status \in {"solved", "failed", "skipped"}


\* ---------------------------------------------------------------- checkpoint claims
\* a step that accepts a move onto a word that is not the target
NonTargetMove == MoveAccepted /\ ~gs'.solved

\* C31: an accepted non-target move appends a checkpoint if and only if the
\* word moved to is on the original optimal path or on the suggested path as
\* it was before the move; the checkpoint has index = len(path) - 1, is
\* unused, and its type holds G iff the word is on the optimal path and L iff
\* it is on the suggested path of before the move.
C31_CheckpointOnOptimalMove ==
    [][NonTargetMove =>
          LET word == Last(gs'.path_so_far)
              is_global == word \in Range(gs.optimal_path)
              is_local == word \in Range(gs.suggested_path)
          IN  IF is_global \/ is_local
              THEN /\ Len(gs'.checkpoints) = Len(gs.checkpoints) + 1
                   /\ SubSeq(gs'.checkpoints, 1, Len(gs.checkpoints)) = gs.checkpoints
                   /\ LET checkpoint == Last(gs'.checkpoints)
                      IN  /\ checkpoint.word = word
                          /\ checkpoint.index = Len(gs'.path_so_far) - 1
                          /\ ~checkpoint.used
                          /\ checkpoint.type \in {"G", "L", "G,L"}
                          /\ checkpoint.type \in {"G", "G,L"} <=> is_global
                          /\ checkpoint.type \in {"L", "G,L"} <=> is_local
              ELSE gs'.checkpoints = gs.checkpoints]_vars

\* no backtrack yet: a move left the optimal path without a checkpoint, a
\* move onto both paths and a move back onto the optimal path alone made one
C31_Witness ==
    /\ gs.pc = "turn"
    /\ gs.backtrack_history = <<>>
    /\ Len(gs.checkpoints) < Len(gs.path_so_far) - 1
    /\ \E c, d \in 1..Len(gs.checkpoints) :
           gs.checkpoints[c].type = "G" /\ gs.checkpoints[d].type = "G,L"


\* C32: when the retry budget is exhausted and the session backtracks, it
\* goes to the available checkpoint of greatest path index: the position it
\* lands on is that of an available checkpoint, and no available checkpoint
\* has a larger index.
C32_BacktrackToMostRecent ==
    [][BacktrackStep =>
          LET available_backtracks == Range(get_available_backtrack_options(gs))
          IN  /\ gs.retry_count >= MAX_RETRIES_PER_MOVE
              /\ \E checkpoint \in available_backtracks :
                     /\ checkpoint.index = gs'.steps_taken
                     /\ checkpoint.word = gs'.current_word
                     /\ Last(gs'.backtrack_history).to = checkpoint.word
              /\ \A checkpoint \in available_backtracks :
                     checkpoint.index <= gs'.steps_taken]_vars

\* the session has just gone back over at least one word to a checkpoint,
\* and a checkpoint of a smaller index was, and still is, on offer
C32_Witness ==
    /\ gs.pc = "turn"
    /\ gs.retry_count = 0 /\ ~gs.awaiting /\ gs.invalid_moves = <<>>
    /\ gs.backtrack_history # <<>>
    /\ Last(gs.backtrack_history).to = gs.current_word
    /\ Len(Last(gs.backtrack_history).failed_path) >= 2
    /\ Len(gs.path_so_far) = gs.steps_taken + 1
    /\ \E checkpoint \in Range(get_available_backtrack_options(gs)) :
           checkpoint.index < gs.steps_taken


\* C33: every backtrack rolls the session back to an earlier position: after
\* it path_so_far is strictly shorter than before, and the current word is
\* not the word at which the retry budget was exhausted.
C33_BacktrackGoesBack ==
    [][BacktrackStep =>
          /\ Len(gs'.path_so_far) < Len(gs.path_so_far)
          /\ gs'.current_word # gs.current_word]_vars


\* the step ends solve_puzzle with a record of status failed
EndsFailed == gs.pc # "done" /\ gs'.pc = "done" /\ gs'.failed /\ ~gs'.solved

\* the retry budget of the turn is used up
RetriesExhausted == gs.pc = "turn" /\ gs.retry_count >= MAX_RETRIES_PER_MOVE

\* a checkpoint is on offer and a backtrack is left
CanBacktrack ==
    /\ get_available_backtrack_options(gs) # <<>>
    /\ gs.backtrack_attempts < MAX_BACKTRACKS

\* the step ceiling is met after a move
CeilingReached ==
    gs.pc = "turn" /\ ~RetriesExhausted /\ gs'.steps_taken >= MAX_STEPS_PER_PUZZLE

\* while a checkpoint is available and a backtrack is left, the exhaustion
\* of the retry budget leads to a backtrack and the session goes on
ExhaustionBacktracks ==
    (RetriesExhausted /\ CanBacktrack /\ gs' # gs) =>
        (BacktrackStep /\ gs'.pc = "turn" /\ gs'.retry_count = 0)

\* C34, as stated: a session ends as failed on the exhaustion of the retry
\* budget only if no checkpoint is available or the backtrack counter has
\* reached its maximum; while a checkpoint is available and fewer than 3
\* backtracks were made, the exhaustion leads to a backtrack and the session
\* goes on.  The only other cause of failed is the step ceiling.
C34_OnlyTwoCauses ==
    [][/\ EndsFailed => (RetriesExhausted /\ ~CanBacktrack) \/ CeilingReached
       /\ ExhaustionBacktracks]_vars

\* C34, amended: there is a third cause of failed, and it comes before the
\* first turn: find_shortest_path finds no path from the start word to the
\* target.  Once the turns have begun the causes are the two of the claim.
C34_FailureCauses ==
    [][/\ EndsFailed =>
              \/ RetriesExhausted /\ ~CanBacktrack
              \/ CeilingReached
              \/ /\ gs.pc = "call"
                 /\ ab_find_shortest_path(graph, gs.start_word, gs.end_word,
                                          scan_order) = <<>>
                 /\ gs'.path_so_far = <<gs.start_word>>
                 /\ gs'.steps_taken = 0
       /\ ExhaustionBacktracks]_vars

\* a session that failed with a checkpoint still on offer, its three
\* backtracks made
C34_Witness ==
    /\ gs.pc = "done" /\ gs.failed /\ ~gs.solved
    /\ gs.retry_count >= MAX_RETRIES_PER_MOVE
    /\ gs.backtrack_attempts = MAX_BACKTRACKS
    /\ get_available_backtrack_options(gs) # <<>>
    /\ gs.steps_taken < MAX_STEPS_PER_PUZZLE


\* ---------------------------------------------------------------- rejection claims
\* the proposer's answer of this step was turned down: the turn goes on with
\* one retry more and the path as long as it was
ProposalRejected ==
    /\ gs.pc = "turn" /\ gs.awaiting
    /\ gs'.pc = "turn" /\ ~gs'.awaiting
    /\ gs'.retry_count = gs.retry_count + 1

\* C35: a rejected proposal (rejected before, not a neighbor, target not
\* adjacent, cycle rule) leaves path_so_far, current_word, steps_taken,
\* neighbors, suggested_path, checkpoints and the backtrack counter as they
\* were; it changes only the list of rejected moves and the retry count of
\* the turn.
C35_RejectionFrame ==
    [][ProposalRejected =>
          /\ gs' = [gs EXCEPT !.awaiting = FALSE,
                              !.retry_count = gs'.retry_count,
                              !.invalid_moves = gs'.invalid_moves]
          /\ \/ gs'.invalid_moves = gs.invalid_moves
             \/ /\ Len(gs'.invalid_moves) = Len(gs.invalid_moves) + 1
                /\ SubSeq(gs'.invalid_moves, 1, Len(gs.invalid_moves)) = gs.invalid_moves
                /\ Last(gs'.invalid_moves) \notin Range(gs.invalid_moves)]_vars


\* after a move that made a checkpoint, the turn has turned down the target,
\* which is not adjacent, and a word the graph does not have
C35_Witness ==
    /\ gs.pc = "turn" /\ ~gs.awaiting
    /\ gs.retry_count = 2
    /\ Len(gs.invalid_moves) = 2
    /\ normalize_word(gs.target_word) \in Range(gs.invalid_moves)
    /\ UnknownWord \in Range(gs.invalid_moves)
    /\ gs.steps_taken >= 1
    /\ gs.checkpoints # <<>>
    /\ Len(gs.path_so_far) = gs.steps_taken + 1


\* ---------------------------------------------------------------- result record claims
\* C36: in every solved record written by an interactive driver the recorded
\* path starts at startWord and ends at the target word, and stepsTaken is
\* the number of moves along that path, len(path) - 1, the move onto the
\* target counted.
C36_SolvedRecordIsWholePath ==
    \A k \in 1..Len(pb.batch_results) :
        LET result == pb.batch_results[k]
        IN  result.status = "solved" =>
                /\ result.llmPath # <<>>
                /\ result.llmPath[1] = result.startWord
                /\ Last(result.llmPath) = result.endWord
                /\ result.stepsTaken = Len(result.llmPath) - 1


\* ---------------------------------------------------------------- session state claims
\* C37: in every state of a session that has not ended, current_word is the
\* last word of path_so_far, steps_taken = len(path_so_far) - 1, neighbors is
\* the neighbor list of current_word in the graph, suggested_path is the
\* shortest path from current_word to the target, previous_distances is as
\* long as path_so_far and rationales one shorter; also after accepted moves
\* and after backtracks.
C37_SessionStateConsistent ==
    gs.pc = "turn" =>
        /\ gs.path_so_far # <<>>
        /\ gs.current_word = Last(gs.path_so_far)
        /\ gs.steps_taken = Len(gs.path_so_far) - 1
        /\ gs.neighbors = ab_get_word_neighbors(graph, gs.current_word)
        /\ gs.suggested_path =
               ab_find_shortest_path(graph, gs.current_word, gs.target_word, scan_order)
        /\ Len(gs.previous_distances) = Len(gs.path_so_far)
        /\ Len(gs.rationales) = Len(gs.path_so_far) - 1

\* a turn after moves and a backtrack over at least one word, with a move
\* accepted since
C37_Witness ==
    /\ gs.pc = "turn"
    /\ gs.backtrack_history # <<>>
    /\ Len(Last(gs.backtrack_history).failed_path) >= 2
    /\ Last(gs.backtrack_history).to # gs.current_word
    /\ Len(gs.path_so_far) >= 3


\* the checkpoint marks a position of the path as it is now
OnPath(checkpoint) ==
    /\ checkpoint.index < Len(gs.path_so_far)
    /\ gs.path_so_far[checkpoint.index + 1] = checkpoint.word

\* C38: in every state of a session, every checkpoint that
\* get_available_backtrack_options would offer has index < len(path_so_far)
\* and path_so_far[index] is its word; a checkpoint left over from a stretch
\* of the path that a backtrack cut off is never available again.
C38_AvailableCheckpointsOnPath ==
    \A checkpoint \in Range(get_available_backtrack_options(gs)) : OnPath(checkpoint)

\* a backtrack has cut off a stretch of the path with a checkpoint on it,
\* and a checkpoint is still on offer
C38_Witness ==
    /\ gs.pc = "turn"
    /\ gs.backtrack_history # <<>>
    /\ \E c \in 1..Len(gs.checkpoints) : ~OnPath(gs.checkpoints[c])
    /\ get_available_backtrack_options(gs) # <<>>

\* ---------------------------------------------------------------- PathFinder queries on the generator's graphs
\* The two implementations asked for the pairs of the graphs the generator
\* works on, one word the graph does not have included.
GenPathInit ==
    /\ graph \in GenGraphs
    /\ scan_order = <<>>
    /\ GenIdle
    /\ hs = NoCall
    /\ gs = NoSession
    /\ bg = NoBuild
    /\ pb = NoBatch
    /\ \E s \in 1..(Cardinality(DOMAIN graph) + 1), e \in 1..(Cardinality(DOMAIN graph) + 1) :
         pf = [start |-> s, end |-> e, ran |-> {}, linear |-> <<>>, heap |-> <<>>]

GenPathSpec == GenPathInit /\ [][PathNext]_vars

\* ---------------------------------------------------------------- PathFinder claims, continued
\* both implementations have answered the query
BothRan == pf.ran = {"heap", "linear"}

\* C39: for every graph and every (start, end) the heap-based PathFinder of
\* HeuristicSolver and the linear-scan PathFinder of the generator return
\* paths of the same total cost and of the same number of hops, so the
\* solver's optimal_length is the pathLength the generator stored.
C39_SameCostSameHops ==
    BothRan =>
        /\ (pf.heap = <<>>) <=> (pf.linear = <<>>)
        /\ PathCost(graph, pf.heap) = PathCost(graph, pf.linear)
        /\ Hops(pf.heap) = Hops(pf.linear)
====
